---- MODULE Spec2Model ----
(***************************************************************************)
(* A model of the Virtual Teacher repository (src/src/virtual_teacher):    *)
(* the text cleaner, the PDF/OCR document processor, the speech            *)
(* synthesizer fallback chain and the chat turn dispatcher with its three  *)
(* turn handlers.                                                          *)
(*                                                                         *)
(* Texts that the code transforms character by character are sequences of  *)
(* one-character strings.  External collaborators (PDF library, OCR, TTS   *)
(* engines, the agent crew) are modelled by their outcome: a value or a    *)
(* raised exception, chosen by the environment.                            *)
(***************************************************************************)
EXTENDS Integers, Sequences, FiniteSets, TLC

VARIABLES
    \* --- text cleaner (utils.py clean_text_for_audio) ---
    text,        \* the input text
    preserve,    \* the preserve_parentheses argument
    once,        \* clean_text_for_audio(text)
    twice,       \* clean_text_for_audio(clean_text_for_audio(text))
    cpc,         \* "input" -> "once" -> "twice"
    \* --- document processor (utils.py process_pdf_with_ocr) ---
    pdfFile,     \* the PDF handed to process_pdf_with_ocr
    pdfOut,      \* what the call returned or raised
    ppc,         \* "input" -> "done"
    \* --- speech synthesis (utils.py generate_tts) ---
    ttsLang,     \* the language code
    ttsFails,    \* the synthesizers that raise during this call
    ttsOut,      \* what the call returned or raised, and the synthesizers it invoked
    tpc,         \* "input" -> "done"
    \* --- a chat session (main.py chat) ---
    history,        \* the conversation history: (student message, teacher response) pairs
    lastTurn,       \* the turn chat handled last: its inputs, branch and result
    sessionContent, \* os.environ['CURRENT_SESSION_CONTENT']: the stored document
    \* --- a single handler call (main.py) ---
    hCall,       \* the handler called and its arguments
    hOut,        \* what the call returned or raised
    hpc,         \* "input" -> "done"
    \* --- a single call of a content loader (utils.py FileManager) ---
    loadCall,    \* the loader called and the file at the path it is given
    loadOut,     \* what the call returned or raised
    lpc,         \* "input" -> "done"
    \* --- image OCR on the file system (utils.py extract_text_from_image) ---
    imgPath,     \* the path of the uploaded image
    files,       \* what each path holds: "absent", "upload", "corrupt" or "enhanced"
    imgOut,      \* what the last call returned or raised
    imgCalls,    \* the number of calls made on the upload
    \* --- content analysis (utils.py identify_content_type) ---
    docText,     \* the text analysed
    docInfo,     \* the analysis returned
    dpc,         \* "input" -> "done"
    \* --- the document tools in one process (tools/custom_tool.py) ---
    environ,     \* os.environ['CURRENT_SESSION_CONTENT']: the stored document, or NoneVal
    toolLog,     \* the documents processed so far, each with the tool's response
    toolOut,     \* what the last tool run did
    \* --- camera-document turns of several sessions in one process ---
    sess,        \* per session: its upload, its position in follow_up, what it was answered from
    \* --- clean_response_text applied to a raw agent response ---
    rawIn,       \* the raw response, as lines
    cleanedOut,  \* what clean_response_text returned (NoResponse: not called)
    rpc,         \* "idle", "input", "done"
    \* --- is_specific_question applied to a message ---
    qMsg,        \* the message
    qOut,        \* what is_specific_question returned (NoneVal: not called)
    qpc,         \* "idle", "input", "done"
    \* --- detect_language applied to a text ---
    dlText,      \* the text, one character class per character
    dlOut,       \* what detect_language returned (NoneVal: not called)
    dlpc,        \* "idle", "input", "done"
    \* --- the LLM manager (llm/llm_manager.py OllamaLLMManager) ---
    activeTier,     \* config['llms']['active']
    currentModels,  \* current_models: the model of each role, NoneVal for a role not in it
    switchOut,      \* the last switch_tier call: the name given and what it raised
    switches        \* the number of switch_tier calls made

cleanVars == <<text, preserve, once, twice, cpc>>
pdfVars == <<pdfFile, pdfOut, ppc>>
ttsVars == <<ttsLang, ttsFails, ttsOut, tpc>>
chatVars == <<history, lastTurn, sessionContent>>
handlerVars == <<hCall, hOut, hpc>>
loadVars == <<loadCall, loadOut, lpc>>
imgVars == <<imgPath, files, imgOut, imgCalls>>
typeVars == <<docText, docInfo, dpc>>
docsVars == <<environ, toolLog, toolOut>>
sessVars == <<sess>>
respVars == <<rawIn, cleanedOut, rpc>>
questionVars == <<qMsg, qOut, qpc>>
langVars == <<dlText, dlOut, dlpc>>
llmVars == <<activeTier, currentModels, switchOut, switches>>

vars == <<cleanVars, pdfVars, ttsVars, chatVars, handlerVars, loadVars, imgVars, typeVars, docsVars, sessVars, respVars, questionVars, langVars, llmVars>>

(***************************************************************************)
(* Bounds of the model                                                     *)
(***************************************************************************)
MaxTextLen == 3
MaxPages == 3
MaxTurns == 2

(***************************************************************************)
(* Generic sequence helpers                                                *)
(***************************************************************************)
RECURSIVE SeqsUpTo(_, _)
SeqsUpTo(S, n) ==
    IF n = 0 THEN {<<>>}
    ELSE LET shorter == SeqsUpTo(S, n - 1)
         IN  shorter \cup {Append(s, c) : s \in {t \in shorter : Len(t) = n - 1}, c \in S}

\* s[i..j], empty when j < i
Slice(s, i, j) == IF j < i THEN <<>> ELSE SubSeq(s, i, j)

\* does the literal lit occur in s starting at index i
MatchesAt(s, i, lit) ==
    /\ i >= 1
    /\ i + Len(lit) - 1 <= Len(s)
    /\ \A k \in 1..Len(lit) : s[i + k - 1] = lit[k]

(***************************************************************************)
(* Character classes of Python's re module, for the characters used        *)
(***************************************************************************)
IsDigit(c) == c \in {"0", "1", "2", "3", "4", "5", "6", "7", "8", "9"}

IsSpace(c) == c \in {" ", "\n", "\t", "\r"}

\* index of the first position >= i whose character is not whitespace,
\* Len(s) + 1 when the whitespace run reaches the end of the text
RECURSIVE SkipSpace(_, _)
SkipSpace(s, i) ==
    IF i > Len(s) THEN i
    ELSE IF IsSpace(s[i]) THEN SkipSpace(s, i + 1) ELSE i

\* index of the last character of the line that holds position i
\* (the position before the next newline, or the end of the text)
RECURSIVE LineEnd(_, _)
LineEnd(s, i) ==
    IF i >= Len(s) THEN Len(s)
    ELSE IF s[i + 1] = "\n" THEN i ELSE LineEnd(s, i + 1)

(***************************************************************************)
(* clean_text_for_audio, one operator per re.sub of the source             *)
(***************************************************************************)

\* the backquote character (a TLA+ string cannot hold it)
Backtick == "BQ"

\* re.sub(r'\*\*|\*|__|~~|`|-', '', text)
RECURSIVE StripMarkdown(_, _)
StripMarkdown(s, i) ==
    IF i > Len(s) THEN <<>>
    ELSE IF MatchesAt(s, i, <<"*", "*">>) THEN StripMarkdown(s, i + 2)
    ELSE IF s[i] = "*" THEN StripMarkdown(s, i + 1)
    ELSE IF MatchesAt(s, i, <<"_", "_">>) THEN StripMarkdown(s, i + 2)
    ELSE IF MatchesAt(s, i, <<"~", "~">>) THEN StripMarkdown(s, i + 2)
    ELSE IF s[i] = Backtick THEN StripMarkdown(s, i + 1)
    ELSE IF s[i] = "-" THEN StripMarkdown(s, i + 1)
    ELSE <<s[i]>> \o StripMarkdown(s, i + 1)

\* first index >= i holding "(", ")" or a newline; Len(s) + 1 when none
RECURSIVE ParenStop(_, _)
ParenStop(s, i) ==
    IF i > Len(s) THEN i
    ELSE IF s[i] \in {"(", ")", "\n"} THEN i ELSE ParenStop(s, i + 1)

\* re.sub(r'\([^()\n]+\)', '', text)
RECURSIVE StripParens(_, _)
StripParens(s, i) ==
    IF i > Len(s) THEN <<>>
    ELSE IF s[i] = "("
         THEN LET j == ParenStop(s, i + 1)
              IN  IF j <= Len(s) /\ s[j] = ")" /\ j > i + 1
                  THEN StripParens(s, j + 1)
                  ELSE <<s[i]>> \o StripParens(s, i + 1)
    ELSE <<s[i]>> \o StripParens(s, i + 1)

\* index after the maximal digit run that starts at i
RECURSIVE SkipDigits(_, _)
SkipDigits(s, i) ==
    IF i > Len(s) THEN i
    ELSE IF IsDigit(s[i]) THEN SkipDigits(s, i + 1) ELSE i

\* last index in lo..hi whose character is not a newline, 0 when none
RECURSIVE LastNonNewline(_, _, _)
LastNonNewline(s, lo, hi) ==
    IF hi < lo THEN 0
    ELSE IF s[hi] # "\n" THEN hi ELSE LastNonNewline(s, lo, hi - 1)

\* r'(\d+\.\s*)([^\n]+)' tried at position i: the index of the last character
\* of the match, 0 when the pattern does not match at i.  \s* is greedy and
\* gives characters back until [^\n]+ finds a character that is no newline.
NumberedEnd(s, i) ==
    IF i > Len(s) \/ ~IsDigit(s[i]) THEN 0
    ELSE LET d == SkipDigits(s, i)
         IN  IF d > Len(s) \/ s[d] # "." THEN 0
             ELSE LET q == SkipSpace(s, d + 1)
                  IN  IF q <= Len(s) THEN LineEnd(s, q)
                      ELSE LET r == LastNonNewline(s, d + 1, Len(s))
                           IN  IF r = 0 THEN 0 ELSE LineEnd(s, r)

\* re.sub(r'(\d+\.\s*)([^\n]+)', r'\1\2.', text)
RECURSIVE NumberedDots(_, _)
NumberedDots(s, i) ==
    IF i > Len(s) THEN <<>>
    ELSE LET e == NumberedEnd(s, i)
         IN  IF e = 0 THEN <<s[i]>> \o NumberedDots(s, i + 1)
             ELSE Slice(s, i, e) \o <<".">> \o NumberedDots(s, e + 1)

EnglishMeaning ==
    <<"E", "n", "g", "l", "i", "s", "h", " ", "m", "e", "a", "n", "i", "n", "g", ":">>

\* re.sub(r'(English meaning:.*?)\n', r'\1. ', text)
RECURSIVE MeaningLines(_, _)
MeaningLines(s, i) ==
    IF i > Len(s) THEN <<>>
    ELSE IF MatchesAt(s, i, EnglishMeaning)
         THEN LET e == LineEnd(s, i + Len(EnglishMeaning) - 1)
              IN  IF e < Len(s)
                  THEN Slice(s, i, e) \o <<".", " ">> \o MeaningLines(s, e + 2)
                  ELSE <<s[i]>> \o MeaningLines(s, i + 1)
    ELSE <<s[i]>> \o MeaningLines(s, i + 1)

\* re.sub(r'\n\s*[\*\->]\s*', r'. ', text)
RECURSIVE BulletLines(_, _)
BulletLines(s, i) ==
    IF i > Len(s) THEN <<>>
    ELSE IF s[i] = "\n"
         THEN LET q == SkipSpace(s, i + 1)
              IN  IF q <= Len(s) /\ s[q] \in {"*", "-", ">"}
                  THEN <<".", " ">> \o BulletLines(s, SkipSpace(s, q + 1))
                  ELSE <<s[i]>> \o BulletLines(s, i + 1)
    ELSE <<s[i]>> \o BulletLines(s, i + 1)

\* re.sub(r'\s{2,}', ' ', text)
RECURSIVE CollapseSpace(_, _)
CollapseSpace(s, i) ==
    IF i > Len(s) THEN <<>>
    ELSE IF IsSpace(s[i])
         THEN LET q == SkipSpace(s, i)
              IN  IF q - i >= 2 THEN <<" ">> \o CollapseSpace(s, q)
                  ELSE <<s[i]>> \o CollapseSpace(s, i + 1)
    ELSE <<s[i]>> \o CollapseSpace(s, i + 1)

\* text.replace('\n', ' ')
NewlinesToSpaces(s) == [k \in 1..Len(s) |-> IF s[k] = "\n" THEN " " ELSE s[k]]

RECURSIVE LastNonSpace(_, _)
LastNonSpace(s, hi) ==
    IF hi = 0 THEN 0
    ELSE IF IsSpace(s[hi]) THEN LastNonSpace(s, hi - 1) ELSE hi

\* str.strip()
Strip(s) == Slice(s, SkipSpace(s, 1), LastNonSpace(s, Len(s)))

clean_text_for_audio(t, preserve_parentheses) ==
    LET s1 == StripMarkdown(t, 1)
        s2 == IF preserve_parentheses THEN s1 ELSE StripParens(s1, 1)
        s3 == NumberedDots(s2, 1)
        s4 == MeaningLines(s3, 1)
        s5 == BulletLines(s4, 1)
        s6 == CollapseSpace(s5, 1)
    IN  Strip(NewlinesToSpaces(s6))

(***************************************************************************)
(* Results of calls that may raise                                         *)
(***************************************************************************)
NoneVal == "None"

Returned(v) == [exc |-> "none", val |-> v]

Raised(e) == [exc |-> e, val |-> <<>>]

(***************************************************************************)
(* Files and the document processor                                        *)
(*                                                                         *)
(* A file is what the PDF library and the OCR engine make of it: whether   *)
(* it exists and opens, whether reading the text layer raises, and per     *)
(* page the length of the (trimmed) text layer and the outcome of          *)
(* rendering and recognising the page: "text", "blank" or "raise".         *)
(* An image file is a file of one page without a text layer.               *)
(* An extracted text is the sequence of its page sections.                 *)
(***************************************************************************)
LayerLens == {0, 25, 50, 51}

OcrOutcomes == {"text", "blank", "raise"}

Pages == [layer : LayerLens, ocr : OcrOutcomes]

File(name, ext, exists, opens, pages) ==
    [name |-> name, ext |-> ext, exists |-> exists, opens |-> opens,
     layerOk |-> TRUE, pages |-> pages]

\* None as an upload: nothing was uploaded
NoFile == File(NoneVal, NoneVal, FALSE, FALSE, <<>>)

PdfFiles ==
    [name : {"doc.pdf"}, ext : {".pdf"}, exists : {TRUE}, opens : BOOLEAN, layerOk : BOOLEAN,
     pages : SeqsUpTo(Pages, MaxPages)]

RECURSIVE SumLen(_)
SumLen(segs) == IF segs = <<>> THEN 0 ELSE Head(segs).len + SumLen(Tail(segs))

\* len(text) of a text-layer extraction: the page texts joined by one newline
TextLen(segs) == IF segs = <<>> THEN 0 ELSE SumLen(segs) + Len(segs) - 1

\* the pages' text layers, pages without text skipped ("if text:")
RECURSIVE LayerSegments(_, _)
LayerSegments(pages, p) ==
    IF p > Len(pages) THEN <<>>
    ELSE IF pages[p].layer > 0
         THEN <<[page |-> p, src |-> "layer", len |-> pages[p].layer, blank |-> FALSE]>>
              \o LayerSegments(pages, p + 1)
         ELSE LayerSegments(pages, p + 1)

\* DocumentProcessor._extract_regular_pdf_text: any exception gives ""
extract_regular_pdf_text(f) ==
    IF ~f.opens \/ ~f.layerOk THEN <<>> ELSE LayerSegments(f.pages, 1)

\* the page loop of _extract_pdf_with_ocr from page p on: one section per
\* page, and the first page that raises ends the loop
RECURSIVE OcrSections(_, _)
OcrSections(pages, p) ==
    IF p > Len(pages) THEN <<>>
    ELSE IF pages[p].ocr = "raise" THEN <<>>
    ELSE <<[page |-> p, src |-> "ocr", len |-> 0, blank |-> (pages[p].ocr = "blank")]>>
         \o OcrSections(pages, p + 1)

\* DocumentProcessor._extract_pdf_with_ocr: fitz.open is outside the try
extract_pdf_with_ocr(f) ==
    IF ~f.opens THEN Raised("Exception") ELSE Returned(OcrSections(f.pages, 1))

\* the threshold of process_pdf_with_ocr
OcrThreshold == 50

\* does process_pdf_with_ocr return the text layer
UsesTextLayer(f) ==
    LET regular_text == extract_regular_pdf_text(f)
    IN  regular_text # <<>> /\ TextLen(regular_text) > OcrThreshold

\* DocumentProcessor.process_pdf_with_ocr
process_pdf_with_ocr(f) ==
    IF UsesTextLayer(f) THEN Returned(extract_regular_pdf_text(f))
    ELSE LET r == extract_pdf_with_ocr(f)
         IN  IF r.exc # "none" THEN Raised("ValueError") ELSE r

\* DocumentProcessor.extract_text_from_image: enhance, OCR, strip
extract_text_from_image(f) ==
    IF ~f.opens \/ f.pages[1].ocr = "raise" THEN Raised("ValueError")
    ELSE IF f.pages[1].ocr = "blank" THEN Returned(<<>>)
    ELSE Returned(<<[page |-> 1, src |-> "ocr", len |-> 0, blank |-> FALSE]>>)

PdfIdle ==
    /\ pdfFile = NoneVal
    /\ pdfOut = NoneVal
    /\ ppc = "idle"

PdfInit ==
    /\ pdfFile \in PdfFiles
    /\ pdfOut = NoneVal
    /\ ppc = "input"

ProcessPdf ==
    /\ ppc = "input"
    /\ pdfOut' = process_pdf_with_ocr(pdfFile)
    /\ ppc' = "done"
    /\ UNCHANGED pdfFile

(***************************************************************************)
(* Speech synthesis: generate_tts and its fallback chain                   *)
(*                                                                         *)
(* A call yields the audio file it returns (named by the synthesizer that  *)
(* wrote it, "empty" for the file nothing was written to) or the exception *)
(* it raises, and the synthesizers it invoked, in order.                   *)
(***************************************************************************)
Synths == {"local", "gtts", "system"}

HindiCodes == {"hi", "hi-in", "hindi"}

Langs == HindiCodes \cup {"en", "fr", "HI", "ta"}

TtsOut(e, path, calls) == [exc |-> e, path |-> path, calls |-> calls]

\* AudioProcessor._generate_gtts
generate_gtts(lang, fails) ==
    LET call == [engine |-> "gtts", lang |-> lang]
    IN  IF "gtts" \in fails THEN TtsOut("Exception", NoneVal, <<call>>)
        ELSE TtsOut("none", "gtts_mp3", <<call>>)

\* _generate_indic_tts falling back to gTTS with the caller's code, not 'hi'
generate_indic_tts_KeepsCode(lang, fails) ==
    LET call == [engine |-> "local", lang |-> lang]
    IN  IF "local" \notin fails THEN TtsOut("none", "local_wav", <<call>>)
        ELSE LET g == generate_gtts(lang, fails)
             IN  TtsOut(g.exc, g.path, <<call>> \o g.calls)

\* AudioProcessor._generate_indic_tts
generate_indic_tts(lang, fails) ==
    LET call == [engine |-> "local", lang |-> lang]
    IN  IF "local" \notin fails THEN TtsOut("none", "local_wav", <<call>>)
        ELSE LET g == generate_gtts("hi", fails)
             IN  TtsOut(g.exc, g.path, <<call>> \o g.calls)

\* _generate_system_tts without its except clause
generate_system_tts_Unguarded(lang, fails) ==
    LET call == [engine |-> "system", lang |-> lang]
    IN  IF "system" \notin fails THEN TtsOut("none", "system_wav", <<call>>)
        ELSE TtsOut("Exception", NoneVal, <<call>>)

\* AudioProcessor._generate_system_tts
generate_system_tts(lang, fails) ==
    LET call == [engine |-> "system", lang |-> lang]
    IN  IF "system" \notin fails THEN TtsOut("none", "system_wav", <<call>>)
        ELSE TtsOut("none", "empty_wav", <<call>>)

\* AudioProcessor.generate_tts
generate_tts(lang, fails) ==
    LET primary == IF lang \in HindiCodes THEN generate_indic_tts(lang, fails)
                   ELSE generate_gtts(lang, fails)
    IN  IF primary.exc = "none" THEN primary
        ELSE LET sys == generate_system_tts(lang, fails)
             IN  TtsOut(sys.exc, sys.path, primary.calls \o sys.calls)

TtsIdle ==
    /\ ttsLang = NoneVal
    /\ ttsFails = {}
    /\ ttsOut = NoneVal
    /\ tpc = "idle"

TtsInit ==
    /\ ttsLang \in Langs
    /\ ttsFails \in SUBSET Synths
    /\ ttsOut = NoneVal
    /\ tpc = "input"

GenerateTts ==
    /\ tpc = "input"
    /\ ttsOut' = generate_tts(ttsLang, ttsFails)
    /\ tpc' = "done"
    /\ UNCHANGED <<ttsLang, ttsFails>>

(***************************************************************************)
(* The specific-question classifier (main.py is_specific_question)         *)
(* Messages are sequences of characters, NoMessage when absent.            *)
(***************************************************************************)
\* None as a message: no text holds this element
NoMessage == <<NoneVal>>

UpperCase ==
    <<"A", "B", "C", "D", "E", "F", "G", "H", "I", "J", "K", "L", "M",
      "N", "O", "P", "Q", "R", "S", "T", "U", "V", "W", "X", "Y", "Z">>

LowerCase ==
    <<"a", "b", "c", "d", "e", "f", "g", "h", "i", "j", "k", "l", "m",
      "n", "o", "p", "q", "r", "s", "t", "u", "v", "w", "x", "y", "z">>

\* str.lower()
Lower(s) ==
    [k \in 1..Len(s) |->
        IF \E u \in 1..Len(UpperCase) : UpperCase[u] = s[k]
        THEN LowerCase[CHOOSE u \in 1..Len(UpperCase) : UpperCase[u] = s[k]]
        ELSE s[k]]

\* lit in s
Contains(s, lit) == \E i \in 1..(Len(s) + 1) : MatchesAt(s, i, lit)

\* s.startswith(lit)
StartsWith(s, lit) == MatchesAt(s, 1, lit)

\* len(s.split()): the number of maximal runs of non-whitespace characters
WordCount(s) ==
    Cardinality({i \in 1..Len(s) : ~IsSpace(s[i]) /\ (i = 1 \/ IsSpace(s[i - 1]))})

question_words ==
    { <<"w", "h", "a", "t">>, <<"h", "o", "w">>, <<"w", "h", "y">>,
      <<"w", "h", "e", "r", "e">>, <<"w", "h", "e", "n">>,
      <<"w", "h", "i", "c", "h">>, <<"w", "h", "o">>,
      <<"c", "a", "n", " ", "y", "o", "u">>,
      <<"c", "o", "u", "l", "d", " ", "y", "o", "u">>,
      <<"p", "l", "e", "a", "s", "e">>, <<"h", "e", "l", "p", " ", "m", "e">>,
      <<"e", "x", "p", "l", "a", "i", "n">>, <<"t", "e", "l", "l", " ", "m", "e">>,
      <<"m", "e", "a", "n", "i", "n", "g">>, <<"d", "e", "f", "i", "n", "e">>,
      <<"s", "o", "l", "v", "e">> }

generic_greetings ==
    { <<"h", "i">>, <<"h", "e", "l", "l", "o">>, <<"h", "e", "y">>,
      <<"g", "o", "o", "d", " ", "m", "o", "r", "n", "i", "n", "g">>,
      <<"g", "o", "o", "d", " ", "a", "f", "t", "e", "r", "n", "o", "o", "n">>,
      <<"n", "a", "m", "a", "s", "t", "e">> }

\* the shortest message is_specific_question looks at
MinQuestionLen == 3

\* the longest message that can be "just a greeting", in words
MaxGreetingWords == 3

is_specific_question(message) ==
    IF message = NoMessage \/ message = <<>> \/ Len(Strip(message)) < MinQuestionLen
    THEN FALSE
    ELSE LET message_lower == Strip(Lower(message))
             has_question_mark == Contains(message, <<"?">>)
             has_request_words == \E w \in question_words : Contains(message_lower, w)
             is_just_greeting ==
                 /\ \E g \in generic_greetings : StartsWith(message_lower, g)
                 /\ WordCount(message_lower) <= MaxGreetingWords
         IN  (has_question_mark \/ has_request_words) /\ ~is_just_greeting

(***************************************************************************)
(* Response post-processing (main.py clean_response_text)                  *)
(*                                                                         *)
(* A raw agent response is NoRaw or a sequence of lines;   a line has a    *)
(* length and a kind: "blank", "thought" (it matches a reasoning phrase),  *)
(* "leak" (it names the record_unknown_question tool) or "plain".          *)
(***************************************************************************)
Line(kind, len) == [kind |-> kind, len |-> len]

\* None as a raw response: no response holds this line
NoRaw == <<Line(NoneVal, 0)>>

\* len('\n'.join(lines))
JoinedLen(lines) == IF lines = <<>> THEN 0 ELSE SumLen(lines) + Len(lines) - 1

\* the paragraph (lines up to the next blank line) that ends at line hi
RECURSIVE ParagraphStart(_, _)
ParagraphStart(raw, hi) ==
    IF hi = 1 \/ raw[hi - 1].kind = "blank" THEN hi ELSE ParagraphStart(raw, hi - 1)

\* below these lengths the line-stripped text is given up (line 110), a
\* paragraph is no substitute (line 116), and the fixed prompt is returned (line 121)
MinCleanedLen == 20

MinParagraphLen == 20

MinFinalLen == 10

\* the scan over reversed(paragraphs): the last paragraph before line hi that
\* holds no reasoning phrase and is longer than MinParagraphLen; <<>> when none
RECURSIVE LastGoodParagraph(_, _)
LastGoodParagraph(raw, hi) ==
    IF hi < 1 THEN <<>>
    ELSE IF raw[hi].kind = "blank" THEN LastGoodParagraph(raw, hi - 1)
    ELSE LET lo == ParagraphStart(raw, hi)
             para == SubSeq(raw, lo, hi)
         IN  IF (\A k \in 1..Len(para) : para[k].kind # "thought")
                /\ JoinedLen(para) > MinParagraphLen
             THEN para
             ELSE LastGoodParagraph(raw, lo - 1)

FixedPrompt == [kind |-> "repeat_prompt", lines |-> <<>>]

EmptyResponse == [kind |-> "empty", lines |-> <<>>]

\* a line the loop over the lines keeps: not blank, no reasoning phrase
IsKeptLine(l) == l.kind \notin {"blank", "thought"}

\* len of what re.sub(r'\bThought\b[:\s]*', '', ...) takes out of a line that
\* holds the word once, inside the line: the word and the space after it
ThoughtWordLen == 8

\* the two re.sub calls on the joined lines: 'thought:' is in no kept line, a
\* kept line that mentions the word ("mention") comes out without it ("cut")
RemoveThoughtWord(l) ==
    IF l.kind = "mention" THEN Line("cut", l.len - ThoughtWordLen) ELSE l

\* cleaned before the length test: the kept lines with the word removed
StripLines(raw) ==
    LET cleaned_lines == SelectSeq(raw, IsKeptLine)
    IN  [k \in 1..Len(cleaned_lines) |-> RemoveThoughtWord(cleaned_lines[k])]

clean_response_text(raw) ==
    IF raw = NoRaw \/ raw = <<>> \/ raw = <<Line("blank", 0)>> THEN EmptyResponse
    ELSE LET cleaned_lines == StripLines(raw)
             paragraph == IF JoinedLen(cleaned_lines) < MinCleanedLen
                          THEN LastGoodParagraph(raw, Len(raw)) ELSE <<>>
             cleaned == IF paragraph # <<>> THEN paragraph ELSE cleaned_lines
         IN  IF JoinedLen(cleaned) < MinFinalLen THEN FixedPrompt
             ELSE [kind |-> "agent_text", lines |-> cleaned]

\* "record_unknown_question" in str(response_text)
NamesTool(response) == \E k \in 1..Len(response.lines) : response.lines[k].kind = "leak"

(***************************************************************************)
(* Content loading (utils.py FileManager, main.py resolve_chapter_content) *)
(***************************************************************************)
ImageExts == {".jpg", ".jpeg", ".png", ".bmp"}

CameraSource == "Camera Document"

Sources == {"Chapter", "Upload PDF", CameraSource}

\* FileManager.load_pdf_content, f the file at content/<subject>/chapter<N>.pdf
load_pdf_content(f) ==
    IF ~f.exists THEN Raised("FileNotFoundError")
    ELSE IF ~f.opens \/ ~f.layerOk THEN Raised("Exception")
    ELSE IF LayerSegments(f.pages, 1) = <<>> THEN Raised("ValueError")
    ELSE Returned(LayerSegments(f.pages, 1))

\* load_pdf_from_path testing the suffix before the existence of the path
load_pdf_from_path_SuffixFirst(f) ==
    IF f.ext # ".pdf" THEN Raised("ValueError")
    ELSE IF ~f.exists THEN Raised("FileNotFoundError")
    ELSE IF ~f.opens \/ ~f.layerOk THEN Raised("Exception")
    ELSE IF LayerSegments(f.pages, 1) = <<>> THEN Raised("ValueError")
    ELSE Returned(LayerSegments(f.pages, 1))

\* FileManager.load_pdf_from_path
load_pdf_from_path(f) ==
    IF ~f.exists THEN Raised("FileNotFoundError")
    ELSE IF f.ext # ".pdf" THEN Raised("ValueError")
    ELSE IF ~f.opens \/ ~f.layerOk THEN Raised("Exception")
    ELSE IF LayerSegments(f.pages, 1) = <<>> THEN Raised("ValueError")
    ELSE Returned(LayerSegments(f.pages, 1))

resolve_chapter_content(content_source, pdf_file, chapter_file) ==
    IF content_source = "Upload PDF"
    THEN IF pdf_file = NoFile THEN Raised("FileNotFoundError")
         ELSE load_pdf_from_path(pdf_file)
    ELSE IF content_source = CameraSource THEN Returned(<<>>)
    ELSE load_pdf_content(chapter_file)

(***************************************************************************)
(* Turn results                                                            *)
(*                                                                         *)
(* A handler's result is the message it returns (named by its kind), the   *)
(* audio path (NoneVal for no audio), or the exception that escapes it;    *)
(* with it the calls the handler made in order, the kinds of error it hit, *)
(* the document whose text it stored as session content (NoneVal: none)    *)
(* and the session content a document answer was read from.                *)
(***************************************************************************)
Out(txt, audio, calls, errs, store) ==
    [exc |-> "none", text |-> txt, audio |-> audio, calls |-> calls,
     errs |-> errs, store |-> store, read |-> NoneVal]

Escapes(e, calls, errs, store) ==
    [exc |-> e, text |-> NoneVal, audio |-> NoneVal, calls |-> calls,
     errs |-> errs, store |-> store, read |-> NoneVal]

\* the messages that apologise or ask to try again
Apologies ==
    {"content_not_found", "content_unreadable", "oops_starting", "oops_answering",
     "unexpected_error", "document_error", "document_error_retry", "no_text_extracted",
     "answer_error"}

\* the error kind of an exception raised while the content is resolved
ContentError(e) ==
    IF e = "FileNotFoundError" THEN "ContentNotFound"
    ELSE IF e = "ValueError" THEN "UnreadableContent"
    ELSE "ProcessingError/load"

\* a synthesizer that generate_tts invoked raised
TtsErrors(tts, fails) ==
    IF \E k \in 1..Len(tts.calls) : tts.calls[k].engine \in fails
    THEN {"ProcessingError/tts"} ELSE {}

(***************************************************************************)
(* The document tools (tools/custom_tool.py)                               *)
(***************************************************************************)
\* what ProcessUploadedDocumentTool._run did: the response, the error kind hit,
\* the document stored as session content (NoneVal: none), the processor's
\* result and the steps taken after the extraction
ToolRun(txt, errs, store, extracted, steps) ==
    [text |-> txt, errs |-> errs, store |-> store, extracted |-> extracted,
     steps |-> steps]

\* _run analysing and storing the text before it tests it for emptiness
process_uploaded_document_StoresFirst(f) ==
    IF f.ext \notin ({".pdf"} \cup ImageExts)
    THEN ToolRun("unsupported_file_type", {}, NoneVal, Raised("skipped"), <<>>)
    ELSE LET extracted == IF f.ext = ".pdf" THEN process_pdf_with_ocr(f)
                          ELSE extract_text_from_image(f)
         IN  IF extracted.exc # "none"
             THEN ToolRun("document_error_retry", {"ProcessingError/ocr"}, NoneVal,
                          extracted, <<>>)
             ELSE IF extracted.val = <<>>
             THEN ToolRun("no_text_extracted", {"UnreadableContent"}, f.name, extracted,
                          <<"identify_content_type", "store_session_content">>)
             ELSE ToolRun("document_help", {}, f.name, extracted,
                          <<"identify_content_type", "create_helpful_response",
                            "store_session_content">>)

\* ProcessUploadedDocumentTool._run
process_uploaded_document(f) ==
    IF f.ext \notin ({".pdf"} \cup ImageExts)
    THEN ToolRun("unsupported_file_type", {}, NoneVal, Raised("skipped"), <<>>)
    ELSE LET extracted == IF f.ext = ".pdf" THEN process_pdf_with_ocr(f)
                          ELSE extract_text_from_image(f)
         IN  IF extracted.exc # "none"
             THEN ToolRun("document_error_retry", {"ProcessingError/ocr"}, NoneVal,
                          extracted, <<>>)
             ELSE IF extracted.val = <<>>
             THEN ToolRun("no_text_extracted", {"UnreadableContent"}, NoneVal, extracted,
                          <<>>)
             ELSE ToolRun("document_help", {}, f.name, extracted,
                          <<"identify_content_type", "create_helpful_response",
                            "store_session_content">>)

\* main.py process_camera_document
process_camera_document(pdf_file, student_question, fails) ==
    IF pdf_file = NoFile THEN Out("upload_document_first", NoneVal, <<>>, {}, NoneVal)
    ELSE IF student_question = NoMessage
    THEN Out("document_error", NoneVal, <<>>, {}, NoneVal)
    ELSE LET doc == process_uploaded_document(pdf_file)
             tts == generate_tts("en", fails)
             calls == <<"process_document", "tts">>
             errs == doc.errs \cup TtsErrors(tts, fails)
         IN  IF tts.exc # "none"
             THEN Out("document_error", NoneVal, calls, errs, doc.store)
             ELSE Out(doc.text, tts.path, calls, errs, doc.store)

\* main.py answer_document_question with AnswerFromDocumentTool._run;
\* session is the session content the tool finds
answer_document_question(question, session, fails) ==
    IF question = NoMessage THEN Escapes("AttributeError", <<>>, {}, NoneVal)
    ELSE IF Strip(question) = <<>>
    THEN Out("ask_about_document", NoneVal, <<>>, {}, NoneVal)
    ELSE LET tts == generate_tts("en", fails)
             calls == <<"answer_document", "tts">>
             errs == TtsErrors(tts, fails)
             answer == IF session = NoneVal THEN "no_document_content"
                       ELSE "document_answer"
         IN  IF tts.exc # "none" THEN Out("answer_error", NoneVal, calls, errs, NoneVal)
             ELSE [Out(answer, tts.path, calls, errs, NoneVal) EXCEPT !.read = session]

(***************************************************************************)
(* The turn handlers (main.py)                                             *)
(*                                                                         *)
(* env is what the outside world does during the turn: chapter is the      *)
(* repository's chapter file, crew and raw the agent crew's behaviour      *)
(* ("init_raises", "kickoff_raises" or "ok" with the raw response), fails  *)
(* the synthesizers that raise.                                            *)
(***************************************************************************)
IsHindi(subject) == subject \in {"Hindi", "hindi", "HINDI"}

\* a handler that creates the crew and kicks the task off before it resolves the content
agent_turn_KicksOffFirst(task, default, checks_tool, subject, content_source, pdf_file, env) ==
    LET content == resolve_chapter_content(content_source, pdf_file, env.chapter)
    IN  IF env.crew = "init_raises"
        THEN Escapes("Exception", <<>>, {"ProcessingError/agent"}, NoneVal)
        ELSE IF env.crew = "kickoff_raises"
        THEN Escapes("Exception", <<task>>, {"ProcessingError/agent"}, NoneVal)
        ELSE IF content.exc # "none"
        THEN Escapes(content.exc, <<task, "resolve">>, {ContentError(content.exc)}, NoneVal)
        ELSE LET response == clean_response_text(env.raw)
                 response_text ==
                     IF response.kind = "empty" \/ (checks_tool /\ NamesTool(response))
                     THEN default ELSE response.kind
                 tts == generate_tts(IF IsHindi(subject) THEN "hi" ELSE "en", env.fails)
                 calls == <<task, "resolve", "tts">>
                 errs == TtsErrors(tts, env.fails)
             IN  IF tts.exc # "none" THEN Escapes(tts.exc, calls, errs, NoneVal)
                 ELSE Out(response_text, tts.path, calls, errs, NoneVal)

\* the Chapter / Upload PDF part of a handler: resolve the content, kick off
\* the task, clean the response, synthesize; checks_tool is start_session's
\* test for "record_unknown_question"
agent_turn(task, default, checks_tool, subject, content_source, pdf_file, env) ==
    LET content == resolve_chapter_content(content_source, pdf_file, env.chapter)
    IN  IF content.exc # "none"
        THEN Escapes(content.exc, <<"resolve">>, {ContentError(content.exc)}, NoneVal)
        ELSE IF env.crew = "init_raises"
        THEN Escapes("Exception", <<"resolve">>, {"ProcessingError/agent"}, NoneVal)
        ELSE IF env.crew = "kickoff_raises"
        THEN Escapes("Exception", <<"resolve", task>>, {"ProcessingError/agent"}, NoneVal)
        ELSE LET response == clean_response_text(env.raw)
                 response_text ==
                     IF response.kind = "empty" \/ (checks_tool /\ NamesTool(response))
                     THEN default ELSE response.kind
                 tts == generate_tts(IF IsHindi(subject) THEN "hi" ELSE "en", env.fails)
                 calls == <<"resolve", task, "tts">>
                 errs == TtsErrors(tts, env.fails)
             IN  IF tts.exc # "none" THEN Escapes(tts.exc, calls, errs, NoneVal)
                 ELSE Out(response_text, tts.path, calls, errs, NoneVal)

\* the except clauses without the final "except Exception"
Caught_ContentErrorsOnly(body, oops) ==
    IF body.exc = "FileNotFoundError"
    THEN Out("content_not_found", NoneVal, body.calls, body.errs, body.store)
    ELSE IF body.exc = "ValueError"
    THEN Out("content_unreadable", NoneVal, body.calls, body.errs, body.store)
    ELSE body

\* the except clauses shared by the three handlers
Caught(body, oops) ==
    IF body.exc = "none" THEN body
    ELSE IF body.exc = "FileNotFoundError"
    THEN Out("content_not_found", NoneVal, body.calls, body.errs, body.store)
    ELSE IF body.exc = "ValueError"
    THEN Out("content_unreadable", NoneVal, body.calls, body.errs, body.store)
    ELSE Out(oops, NoneVal, body.calls, body.errs, body.store)

start_session(subject, content_source, pdf_file, env) ==
    Caught(
        IF content_source = CameraSource
        THEN IF pdf_file = NoFile
             THEN Out("upload_photo_first", NoneVal, <<>>, {}, NoneVal)
             ELSE process_camera_document(pdf_file, <<>>, env.fails)
        ELSE agent_turn("teaching_task", "default_greeting", TRUE,
                        subject, content_source, pdf_file, env),
        "oops_starting")

smart_first_response(subject, content_source, pdf_file, student_query, env) ==
    Caught(
        IF content_source = CameraSource
        THEN IF pdf_file = NoFile
             THEN Out("upload_first", NoneVal, <<>>, {}, NoneVal)
             ELSE process_camera_document(pdf_file, student_query, env.fails)
        ELSE agent_turn("smart_response_task", "clarify_question", FALSE,
                        subject, content_source, pdf_file, env),
        "oops_answering")

\* follow_up answering whether or not the document was processed
follow_up_AnswersAlways(subject, content_source, pdf_file, student_query, env, session) ==
    Caught(
        IF content_source = CameraSource
        THEN IF pdf_file = NoFile
             THEN Out("upload_first", NoneVal, <<>>, {}, NoneVal)
             ELSE LET doc == process_camera_document(pdf_file, student_query, env.fails)
                      stored == IF doc.store # NoneVal THEN doc.store ELSE session
                      ans == answer_document_question(student_query, stored, env.fails)
                  IN  [ans EXCEPT !.calls = doc.calls \o ans.calls,
                                  !.errs = doc.errs \cup ans.errs,
                                  !.store = doc.store]
        ELSE agent_turn("follow_up_task", "clarify_question", FALSE,
                        subject, content_source, pdf_file, env),
        "oops_answering")

follow_up(subject, content_source, pdf_file, student_query, env, session) ==
    Caught(
        IF content_source = CameraSource
        THEN IF pdf_file = NoFile
             THEN Out("upload_first", NoneVal, <<>>, {}, NoneVal)
             ELSE LET doc == process_camera_document(pdf_file, student_query, env.fails)
                      stored == IF doc.store # NoneVal THEN doc.store ELSE session
                      ans == answer_document_question(student_query, stored, env.fails)
                  IN  IF doc.text = "document_help"
                      THEN [ans EXCEPT !.calls = doc.calls \o ans.calls,
                                       !.errs = doc.errs \cup ans.errs,
                                       !.store = doc.store]
                      ELSE [doc EXCEPT !.audio = NoneVal]
        ELSE agent_turn("follow_up_task", "clarify_question", FALSE,
                        subject, content_source, pdf_file, env),
        "oops_answering")

(***************************************************************************)
(* The chat dispatcher (main.py chat)                                      *)
(***************************************************************************)
\* the display text of a turn without a message
StartingSession == <<"S", "t", "a", "r", "t", "i", "n", "g">>

\* is_empty_message of chat
EmptyMessage(message_v) == message_v = NoMessage \/ Strip(message_v) = <<>>

\* chat greeting on a first turn only when a message came with it
Dispatch_GreetsOnText(src_v, message_v, history_v) ==
    LET is_first_turn == Len(history_v) = 0
        is_empty_message == EmptyMessage(message_v)
    IN  IF is_first_turn /\ ~is_empty_message /\ is_specific_question(message_v)
        THEN "smart_first_response"
        ELSE IF (is_first_turn /\ ~is_empty_message)
                \/ (~is_first_turn /\ is_empty_message /\ src_v # CameraSource)
        THEN "start_session"
        ELSE "follow_up"

\* chat testing for the first turn before it tests for a specific question
Dispatch_GreetsFirst(src_v, message_v, history_v) ==
    LET is_first_turn == Len(history_v) = 0
        is_empty_message == EmptyMessage(message_v)
    IN  IF is_first_turn \/ (is_empty_message /\ src_v # CameraSource)
        THEN "start_session"
        ELSE IF ~is_empty_message /\ is_specific_question(message_v)
        THEN "smart_first_response"
        ELSE "follow_up"

\* chat greeting only when the message is empty
Dispatch_GreetsOnEmpty(src_v, message_v, history_v) ==
    LET is_first_turn == Len(history_v) = 0
        is_empty_message == EmptyMessage(message_v)
    IN  IF is_first_turn /\ ~is_empty_message /\ is_specific_question(message_v)
        THEN "smart_first_response"
        ELSE IF is_empty_message /\ src_v # CameraSource
        THEN "start_session"
        ELSE "follow_up"

\* the branch chat takes
Dispatch(src_v, message_v, history_v) ==
    LET is_first_turn == Len(history_v) = 0
        is_empty_message == EmptyMessage(message_v)
    IN  IF is_first_turn /\ ~is_empty_message /\ is_specific_question(message_v)
        THEN "smart_first_response"
        ELSE IF is_first_turn \/ (is_empty_message /\ src_v # CameraSource)
        THEN "start_session"
        ELSE "follow_up"

\* chat appending the turn only when the handler gave no apology
chat_SkipsFailedTurn(subject_v, src_v, pdf_v, message_v, history_v, env, session) ==
    LET branch == Dispatch(src_v, message_v, history_v)
        out == IF branch = "smart_first_response"
               THEN smart_first_response(subject_v, src_v, pdf_v, message_v, env)
               ELSE IF branch = "start_session"
               THEN start_session(subject_v, src_v, pdf_v, env)
               ELSE follow_up(subject_v, src_v, pdf_v, message_v, env, session)
        display_message == IF message_v = NoMessage \/ message_v = <<>>
                           THEN StartingSession ELSE message_v
    IN  IF out.exc # "none"
        THEN [out |-> Out("unexpected_error", NoneVal, out.calls, out.errs, out.store),
              branch |-> branch, history |-> history_v]
        ELSE [out |-> out, branch |-> branch,
              history |-> IF out.text \in Apologies THEN history_v
                          ELSE Append(history_v, <<display_message, out.text>>)]

\* chat: the handler's result with the branch taken and the history returned
chat(subject_v, src_v, pdf_v, message_v, history_v, env, session) ==
    LET branch == Dispatch(src_v, message_v, history_v)
        out == IF branch = "smart_first_response"
               THEN smart_first_response(subject_v, src_v, pdf_v, message_v, env)
               ELSE IF branch = "start_session"
               THEN start_session(subject_v, src_v, pdf_v, env)
               ELSE follow_up(subject_v, src_v, pdf_v, message_v, env, session)
        display_message == IF message_v = NoMessage \/ message_v = <<>>
                           THEN StartingSession ELSE message_v
    IN  IF out.exc # "none"
        THEN [out |-> Out("unexpected_error", NoneVal, out.calls, out.errs, out.store),
              branch |-> branch, history |-> history_v]
        ELSE [out |-> out, branch |-> branch,
              history |-> Append(history_v, <<display_message, out.text>>)]

(***************************************************************************)
(* The inputs of a turn                                                    *)
(***************************************************************************)
BookPdf == File("book.pdf", ".pdf", TRUE, TRUE, <<[layer |-> 51, ocr |-> "text"]>>)

ScanPdf ==
    File("scan.pdf", ".pdf", TRUE, TRUE,
         <<[layer |-> 0, ocr |-> "text"], [layer |-> 0, ocr |-> "text"]>>)

GonePdf == File("gone.pdf", ".pdf", FALSE, FALSE, <<>>)

PhotoPng == File("photo.png", ".png", TRUE, TRUE, <<[layer |-> 0, ocr |-> "text"]>>)

BlankPng == File("blank.png", ".png", TRUE, TRUE, <<[layer |-> 0, ocr |-> "blank"]>>)

TornJpg == File("torn.jpg", ".jpg", TRUE, TRUE, <<[layer |-> 0, ocr |-> "raise"]>>)

NotesTxt == File("notes.txt", ".txt", TRUE, TRUE, <<>>)

\* what the upload widget can hold
Uploads == {NoFile, BookPdf, ScanPdf, GonePdf, PhotoPng, BlankPng, TornJpg, NotesTxt}

\* the repository's file for the chosen chapter: readable, scanned, or absent
ChapterFiles == {BookPdf, ScanPdf, GonePdf}

Subjects == {"Math", "Hindi"}

Hi == <<"h", "i">>

WhyQuestion == <<"w", "h", "y", "?">>

\* absent, empty, blank, a greeting, a specific question
Messages == {NoMessage, <<>>, <<" ">>, Hi, WhyQuestion}

RawSamples ==
    { NoRaw,
      <<Line("thought", 30)>>,
      <<Line("thought", 30), Line("blank", 0), Line("plain", 40)>>,
      <<Line("leak", 40)>> }

AgentOutcomes ==
    {[crew |-> c, raw |-> NoRaw] : c \in {"init_raises", "kickoff_raises"}}
    \cup {[crew |-> "ok", raw |-> r] : r \in RawSamples}

Env(chapter, agent, fails) ==
    [chapter |-> chapter, crew |-> agent.crew, raw |-> agent.raw, fails |-> fails]

QuietAgent == [crew |-> "ok", raw |-> NoRaw]

TurnInput(subject, src, pdf, message, e) ==
    [subject |-> subject, src |-> src, pdf |-> pdf, message |-> message, env |-> e]

\* The inputs of a turn.  The outcome of a call the turn cannot make is not
\* varied: Chapter mode reads no upload (the widget is hidden and reset),
\* Upload PDF mode reads no chapter file, Camera Document mode reads no
\* chapter file and runs no agent.
TurnInputs ==
    {TurnInput(s, "Chapter", NoFile, m, Env(c, a, f)) :
        s \in Subjects, m \in Messages, c \in ChapterFiles, a \in AgentOutcomes,
        f \in SUBSET Synths}
    \cup {TurnInput(s, "Upload PDF", p, m, Env(GonePdf, a, f)) :
        s \in Subjects, m \in Messages, p \in Uploads, a \in AgentOutcomes,
        f \in SUBSET Synths}
    \cup {TurnInput(s, CameraSource, p, m, Env(GonePdf, QuietAgent, f)) :
        s \in Subjects, m \in Messages, p \in Uploads, f \in SUBSET Synths}

FileName(f) == f.name

(***************************************************************************)
(* A chat session: turns handled one after the other by chat               *)
(***************************************************************************)
\* before the first turn
NoTurn ==
    [first |-> TRUE, src |-> NoneVal, message |-> NoMessage, file |-> NoneVal,
     branch |-> NoneVal, text |-> NoneVal, audio |-> NoneVal, calls |-> <<>>,
     errs |-> {}]

ChatIdle ==
    /\ history = <<>>
    /\ lastTurn = NoTurn
    /\ sessionContent = NoneVal

ChatInit == ChatIdle

\* what a turn leaves behind: r is what chat returned for the input in
TurnEffect(r, in) ==
    /\ history' = r.history
    /\ sessionContent' = IF r.out.store # NoneVal THEN r.out.store ELSE sessionContent
    /\ lastTurn' =
           [first |-> (Len(history) = 0), src |-> in.src, message |-> in.message,
            file |-> FileName(in.pdf), branch |-> r.branch, text |-> r.out.text,
            audio |-> r.out.audio, calls |-> r.out.calls, errs |-> r.out.errs]

\* The turns of a session are drawn from the turn inputs with one subject,
\* every synthesizer working or none, and the agent answering in plain text
\* or raising; single calls (below) take every turn input.
SessionInputs ==
    {in \in TurnInputs :
        /\ in.subject = "Math"
        /\ in.env.fails \in {{}, Synths}
        /\ in.env.crew # "init_raises"
        /\ in.env.raw \in {NoRaw, <<Line("thought", 30), Line("blank", 0), Line("plain", 40)>>}
        /\ in.pdf \in {NoFile, BookPdf, PhotoPng, TornJpg}}

ChatTurn ==
    /\ Len(history) < MaxTurns
    /\ \E in \in SessionInputs :
         TurnEffect(chat(in.subject, in.src, in.pdf, in.message, history, in.env,
                         sessionContent), in)

(***************************************************************************)
(* A single call of a handler or of chat, with any arguments               *)
(***************************************************************************)
Handlers == {"start_session", "smart_first_response", "follow_up", "chat"}

ChatCall(r) == [branch |-> r.branch, out |-> r.out]

StoredSessions == {NoneVal, "photo.png"}

PastHistories == {<<>>, <<<<Hi, "default_greeting">>>>}

\* session content only follow_up and chat read, a history only chat
HandlerCalls ==
    [fn : {"start_session", "smart_first_response"}, input : TurnInputs,
     session : {NoneVal}, history : {<<>>}]
    \cup [fn : {"follow_up"}, input : TurnInputs, session : StoredSessions,
          history : {<<>>}]
    \cup [fn : {"chat"}, input : TurnInputs, session : StoredSessions,
          history : PastHistories]

\* the call: what it returned or raised and, for chat, the branch it took
Invoke(c) ==
    IF c.fn = "start_session"
    THEN [branch |-> c.fn,
          out |-> start_session(c.input.subject, c.input.src, c.input.pdf, c.input.env)]
    ELSE IF c.fn = "smart_first_response"
    THEN [branch |-> c.fn,
          out |-> smart_first_response(c.input.subject, c.input.src, c.input.pdf,
                                       c.input.message, c.input.env)]
    ELSE IF c.fn = "follow_up"
    THEN [branch |-> c.fn,
          out |-> follow_up(c.input.subject, c.input.src, c.input.pdf,
                            c.input.message, c.input.env, c.session)]
    ELSE ChatCall(chat(c.input.subject, c.input.src, c.input.pdf, c.input.message,
                       c.history, c.input.env, c.session))

HandlerIdle ==
    /\ hCall = NoneVal
    /\ hOut = NoneVal
    /\ hpc = "idle"

HandlerInit ==
    /\ hCall \in HandlerCalls
    /\ hOut = NoneVal
    /\ hpc = "input"

CallHandler ==
    /\ hpc = "input"
    /\ hOut' = Invoke(hCall)
    /\ hpc' = "done"
    /\ UNCHANGED hCall

(***************************************************************************)
(* The text cleaner applied once and then again to its own result          *)
(***************************************************************************)
CleanAlphabet == {"1", ".", "a", " ", "\n", "*", "_", "(", ")", ">"}

\* longer texts: a numbered list, a bulleted list, a parenthetical aside and
\* an "English meaning:" line
SampleTexts ==
    { <<"1", ".", " ", "a", "d", "d", "\n", "2", ".", " ", "s", "u", "b">>,
      <<"a", "\n", "-", " ", "b", "\n", "*", " ", "c", "\n", ">", " ", "d">>,
      <<"*", "*", "b", "*", "*", " ", "(", "x", ")", " ", "~", "~", Backtick, "c", Backtick>>,
      EnglishMeaning \o <<" ", "a", "\n", "b">> }

CleanTexts == SeqsUpTo(CleanAlphabet, MaxTextLen) \cup SampleTexts

CleanIdle ==
    /\ text = <<>>
    /\ preserve = FALSE
    /\ once = <<>>
    /\ twice = <<>>
    /\ cpc = "idle"

CleanInit ==
    /\ text \in CleanTexts
    /\ preserve \in BOOLEAN
    /\ once = <<>>
    /\ twice = <<>>
    /\ cpc = "input"

CleanOnce ==
    /\ cpc = "input"
    /\ once' = clean_text_for_audio(text, preserve)
    /\ cpc' = "once"
    /\ UNCHANGED <<text, preserve, twice>>

CleanTwice ==
    /\ cpc = "once"
    /\ twice' = clean_text_for_audio(once, preserve)
    /\ cpc' = "twice"
    /\ UNCHANGED <<text, preserve, once>>

(***************************************************************************)
(* A single call of a content loader                                       *)
(***************************************************************************)
Loaders == {"load_pdf_content", "load_pdf_from_path"}

\* the suffixes of the paths handed to the loaders, lower-cased
LoadExts == {".pdf", ".png", ".txt"}

\* The file at the path: absent, or present and then openable or not by the
\* PDF library.  load_pdf_content builds its path itself, ending in ".pdf".
LoadFiles ==
    {[name |-> "f", ext |-> e, exists |-> x, opens |-> o, layerOk |-> l, pages |-> p] :
        e \in LoadExts, x \in BOOLEAN, o \in BOOLEAN, l \in BOOLEAN,
        p \in SeqsUpTo(Pages, MaxPages)}

LoadCalls ==
    {c \in [fn : Loaders, file : LoadFiles] :
        /\ c.file.opens => c.file.exists
        /\ c.fn = "load_pdf_content" => c.file.ext = ".pdf"}

Load(c) ==
    IF c.fn = "load_pdf_content" THEN load_pdf_content(c.file)
    ELSE load_pdf_from_path(c.file)

LoadIdle ==
    /\ loadCall = NoneVal
    /\ loadOut = NoneVal
    /\ lpc = "idle"

LoadInit ==
    /\ loadCall \in LoadCalls
    /\ loadOut = NoneVal
    /\ lpc = "input"

CallLoader ==
    /\ lpc = "input"
    /\ loadOut' = Load(loadCall)
    /\ lpc' = "done"
    /\ UNCHANGED loadCall

(***************************************************************************)
(* Image OCR and the files it writes and removes (utils.py                 *)
(* enhance_image_quality, extract_text_from_image).  A path is a sequence  *)
(* of characters; files maps the upload's path and the enhanced path to    *)
(* what is stored there.                                                   *)
(***************************************************************************)
\* str.replace(old, new) from position i on
RECURSIVE Replace(_, _, _, _)
Replace(s, i, old, new) ==
    IF i > Len(s) THEN <<>>
    ELSE IF MatchesAt(s, i, old) THEN new \o Replace(s, i + Len(old), old, new)
    ELSE <<s[i]>> \o Replace(s, i + 1, old, new)

\* enhanced_path of enhance_image_quality
EnhancedPath(image_path) ==
    Replace(Replace(image_path, 1, <<".", "j", "p", "g">>,
                    <<"_", "e", "n", "h", "a", "n", "c", "e", "d", ".", "j", "p", "g">>),
            1, <<".", "p", "n", "g">>,
            <<"_", "e", "n", "h", "a", "n", "c", "e", "d", ".", "p", "n", "g">>)

\* uploads with each suffix the document tool takes as an image
ImageUploads ==
    { <<"a", ".", "j", "p", "g">>, <<"a", ".", "j", "p", "e", "g">>,
      <<"a", ".", "p", "n", "g">>, <<"a", ".", "b", "m", "p">>,
      <<"a", ".", "p", "n", "g", ".", "j", "p", "g">>, <<"a", ".", "J", "P", "G">> }

\* enhance_image_quality: cv2.imread gives None for a file it cannot decode
\* and cvtColor raises on it; else the result is written to enhanced_path
enhance_image_quality(fs, image_path) ==
    IF fs[image_path] \in {"absent", "corrupt"}
    THEN [exc |-> "Exception", path |-> <<>>, files |-> fs]
    ELSE [exc |-> "none", path |-> EnhancedPath(image_path),
          files |-> [fs EXCEPT ![EnhancedPath(image_path)] = "enhanced"]]

\* extract_text_from_image with its effect on the files; ocr is the outcome
\* of pytesseract.image_to_string
ExtractFromImage(enhanced, ocr) ==
    IF enhanced.exc # "none" \/ ocr = "raise"
    THEN [exc |-> "ValueError", val |-> NoneVal, files |-> enhanced.files]
    ELSE [exc |-> "none", val |-> ocr,
          files |-> [enhanced.files EXCEPT ![enhanced.path] = "absent"]]

MaxCalls == 3

ImageIdle ==
    /\ imgPath = <<>>
    /\ files = <<>>
    /\ imgOut = NoneVal
    /\ imgCalls = 0

ImageInit ==
    /\ imgPath \in ImageUploads
    /\ \E held \in {"upload", "corrupt"}, left \in {"absent", "enhanced"} :
         \* left: what an earlier call may have left at the enhanced path
         files = [p \in {imgPath, EnhancedPath(imgPath)} |->
                    IF p = imgPath THEN held ELSE left]
    /\ imgOut = NoneVal
    /\ imgCalls = 0

ExtractImage ==
    /\ imgCalls < MaxCalls
    /\ \E ocr \in OcrOutcomes :
         /\ imgOut' = ExtractFromImage(enhance_image_quality(files, imgPath), ocr)
         /\ files' = imgOut'.files
    /\ imgCalls' = imgCalls + 1
    /\ UNCHANGED imgPath

(***************************************************************************)
(* Content analysis (utils.py identify_content_type).  Keywords are        *)
(* matched as substrings of the lower-cased text; confidence is in tenths. *)
(***************************************************************************)
\* any(word in text_lower for word in words)
AnyIn(text_lower, words) == \E w \in words : Contains(text_lower, w)

\* the subjects dictionary with english before math
subjects_EnglishFirst ==
    <<
       [subject |-> "english", keywords |->
          {
            <<"e", "n", "g", "l", "i", "s", "h">>,
            <<"g", "r", "a", "m", "m", "a", "r">>,
            <<"v", "o", "c", "a", "b", "u", "l", "a", "r", "y">>,
            <<"r", "e", "a", "d", "i", "n", "g">>,
            <<"w", "r", "i", "t", "i", "n", "g">>, <<"s", "t", "o", "r", "y">>,
            <<"p", "o", "e", "m">> } ],
       [subject |-> "math", keywords |->
          {
            <<"m", "a", "t", "h">>,
            <<"m", "a", "t", "h", "e", "m", "a", "t", "i", "c", "s">>,
            <<"a", "l", "g", "e", "b", "r", "a">>,
            <<"g", "e", "o", "m", "e", "t", "r", "y">>,
            <<"a", "r", "i", "t", "h", "m", "e", "t", "i", "c">>,
            <<"a", "d", "d", "i", "t", "i", "o", "n">>,
            <<"s", "u", "b", "t", "r", "a", "c", "t", "i", "o", "n">>,
            <<"m", "u", "l", "t", "i", "p", "l", "i", "c", "a", "t", "i", "o", "n">>,
            <<"d", "i", "v", "i", "s", "i", "o", "n">> } ],
       [subject |-> "science", keywords |->
          {
            <<"s", "c", "i", "e", "n", "c", "e">>,
            <<"p", "h", "y", "s", "i", "c", "s">>,
            <<"c", "h", "e", "m", "i", "s", "t", "r", "y">>,
            <<"b", "i", "o", "l", "o", "g", "y">>,
            <<"e", "x", "p", "e", "r", "i", "m", "e", "n", "t">>,
            <<"o", "b", "s", "e", "r", "v", "a", "t", "i", "o", "n">> } ],
       [subject |-> "history", keywords |->
          {
            <<"h", "i", "s", "t", "o", "r", "y">>,
            <<"a", "n", "c", "i", "e", "n", "t">>,
            <<"m", "e", "d", "i", "e", "v", "a", "l">>,
            <<"f", "r", "e", "e", "d", "o", "m">>,
            <<"i", "n", "d", "e", "p", "e", "n", "d", "e", "n", "c", "e">>,
            <<"r", "u", "l", "e", "r", "s">> } ],
       [subject |-> "geography", keywords |->
          {
            <<"g", "e", "o", "g", "r", "a", "p", "h", "y">>, <<"m", "a", "p">>,
            <<"c", "o", "n", "t", "i", "n", "e", "n", "t">>,
            <<"c", "o", "u", "n", "t", "r", "y">>,
            <<"c", "l", "i", "m", "a", "t", "e">>, <<"r", "i", "v", "e", "r">>,
            <<"m", "o", "u", "n", "t", "a", "i", "n">> } ]
    >>

\* the subjects dictionary, in its insertion order
subjects ==
    <<
       [subject |-> "math", keywords |->
          {
            <<"m", "a", "t", "h">>,
            <<"m", "a", "t", "h", "e", "m", "a", "t", "i", "c", "s">>,
            <<"a", "l", "g", "e", "b", "r", "a">>,
            <<"g", "e", "o", "m", "e", "t", "r", "y">>,
            <<"a", "r", "i", "t", "h", "m", "e", "t", "i", "c">>,
            <<"a", "d", "d", "i", "t", "i", "o", "n">>,
            <<"s", "u", "b", "t", "r", "a", "c", "t", "i", "o", "n">>,
            <<"m", "u", "l", "t", "i", "p", "l", "i", "c", "a", "t", "i", "o", "n">>,
            <<"d", "i", "v", "i", "s", "i", "o", "n">> } ],
       [subject |-> "english", keywords |->
          {
            <<"e", "n", "g", "l", "i", "s", "h">>,
            <<"g", "r", "a", "m", "m", "a", "r">>,
            <<"v", "o", "c", "a", "b", "u", "l", "a", "r", "y">>,
            <<"r", "e", "a", "d", "i", "n", "g">>,
            <<"w", "r", "i", "t", "i", "n", "g">>, <<"s", "t", "o", "r", "y">>,
            <<"p", "o", "e", "m">> } ],
       [subject |-> "science", keywords |->
          {
            <<"s", "c", "i", "e", "n", "c", "e">>,
            <<"p", "h", "y", "s", "i", "c", "s">>,
            <<"c", "h", "e", "m", "i", "s", "t", "r", "y">>,
            <<"b", "i", "o", "l", "o", "g", "y">>,
            <<"e", "x", "p", "e", "r", "i", "m", "e", "n", "t">>,
            <<"o", "b", "s", "e", "r", "v", "a", "t", "i", "o", "n">> } ],
       [subject |-> "history", keywords |->
          {
            <<"h", "i", "s", "t", "o", "r", "y">>,
            <<"a", "n", "c", "i", "e", "n", "t">>,
            <<"m", "e", "d", "i", "e", "v", "a", "l">>,
            <<"f", "r", "e", "e", "d", "o", "m">>,
            <<"i", "n", "d", "e", "p", "e", "n", "d", "e", "n", "c", "e">>,
            <<"r", "u", "l", "e", "r", "s">> } ],
       [subject |-> "geography", keywords |->
          {
            <<"g", "e", "o", "g", "r", "a", "p", "h", "y">>, <<"m", "a", "p">>,
            <<"c", "o", "n", "t", "i", "n", "e", "n", "t">>,
            <<"c", "o", "u", "n", "t", "r", "y">>,
            <<"c", "l", "i", "m", "a", "t", "e">>, <<"r", "i", "v", "e", "r">>,
            <<"m", "o", "u", "n", "t", "a", "i", "n">> } ]
    >>

\* identify_content_type testing the textbook words before the homework words
identify_content_type_TextbookFirst(doc_text) ==
    LET text_lower == Lower(doc_text)
        found == {k \in 1..Len(subjects) : AnyIn(text_lower, subjects[k].keywords)}
        first == CHOOSE k \in found : \A j \in found : k <= j
        is_textbook == AnyIn(text_lower,
          {
            <<"c", "h", "a", "p", "t", "e", "r">>, <<"l", "e", "s", "s", "o", "n">>,
            <<"l", "e", "a", "r", "n">>,
            <<"u", "n", "d", "e", "r", "s", "t", "a", "n", "d">> })
        is_homework == AnyIn(text_lower,
          {
            <<"h", "o", "m", "e", "w", "o", "r", "k">>,
            <<"a", "s", "s", "i", "g", "n", "m", "e", "n", "t">>,
            <<"c", "o", "m", "p", "l", "e", "t", "e">>, <<"s", "o", "l", "v", "e">> })
    IN  [type |-> IF is_textbook THEN "textbook" ELSE IF is_homework THEN "homework" ELSE "general",
         subject |-> IF found = {} THEN "unknown" ELSE subjects[first].subject,
         has_questions |-> AnyIn(text_lower,
          {
            <<"?">>, <<"w", "h", "a", "t">>, <<"h", "o", "w">>, <<"w", "h", "y">>,
            <<"w", "h", "e", "r", "e">>, <<"w", "h", "e", "n">>,
            <<"w", "h", "i", "c", "h">>, <<"s", "o", "l", "v", "e">>,
            <<"f", "i", "n", "d">>, <<"c", "a", "l", "c", "u", "l", "a", "t", "e">> }),
         has_exercises |-> AnyIn(text_lower,
          {
            <<"e", "x", "e", "r", "c", "i", "s", "e">>,
            <<"p", "r", "a", "c", "t", "i", "c", "e">>, <<"s", "o", "l", "v", "e">>,
            <<"c", "o", "m", "p", "l", "e", "t", "e">>, <<"f", "i", "l", "l">>,
            <<"c", "h", "o", "o", "s", "e">>, <<"m", "a", "t", "c", "h">> }),
         confidence |-> IF is_textbook THEN 8 ELSE IF is_homework THEN 9
                        ELSE IF found = {} THEN 5 ELSE 8]

\* DocumentProcessor.identify_content_type
identify_content_type(doc_text) ==
    LET text_lower == Lower(doc_text)
        found == {k \in 1..Len(subjects) : AnyIn(text_lower, subjects[k].keywords)}
        first == CHOOSE k \in found : \A j \in found : k <= j
        is_homework == AnyIn(text_lower,
          {
            <<"h", "o", "m", "e", "w", "o", "r", "k">>,
            <<"a", "s", "s", "i", "g", "n", "m", "e", "n", "t">>,
            <<"c", "o", "m", "p", "l", "e", "t", "e">>, <<"s", "o", "l", "v", "e">> })
        is_textbook == AnyIn(text_lower,
          {
            <<"c", "h", "a", "p", "t", "e", "r">>, <<"l", "e", "s", "s", "o", "n">>,
            <<"l", "e", "a", "r", "n">>,
            <<"u", "n", "d", "e", "r", "s", "t", "a", "n", "d">> })
    IN  [type |-> IF is_homework THEN "homework" ELSE IF is_textbook THEN "textbook" ELSE "general",
         subject |-> IF found = {} THEN "unknown" ELSE subjects[first].subject,
         has_questions |-> AnyIn(text_lower,
          {
            <<"?">>, <<"w", "h", "a", "t">>, <<"h", "o", "w">>, <<"w", "h", "y">>,
            <<"w", "h", "e", "r", "e">>, <<"w", "h", "e", "n">>,
            <<"w", "h", "i", "c", "h">>, <<"s", "o", "l", "v", "e">>,
            <<"f", "i", "n", "d">>, <<"c", "a", "l", "c", "u", "l", "a", "t", "e">> }),
         has_exercises |-> AnyIn(text_lower,
          {
            <<"e", "x", "e", "r", "c", "i", "s", "e">>,
            <<"p", "r", "a", "c", "t", "i", "c", "e">>, <<"s", "o", "l", "v", "e">>,
            <<"c", "o", "m", "p", "l", "e", "t", "e">>, <<"f", "i", "l", "l">>,
            <<"c", "h", "o", "o", "s", "e">>, <<"m", "a", "t", "c", "h">> }),
         confidence |-> IF is_homework THEN 9 ELSE IF is_textbook THEN 8
                        ELSE IF found = {} THEN 5 ELSE 8]

MaxWords == 3

\* the words the analysed texts are made of
DocWords ==
    {
      <<"M", "a", "t", "h">>, <<"h", "i", "s", "t", "o", "r", "y">>,
      <<"r", "i", "v", "e", "r">>, <<"p", "h", "y", "s", "i", "c", "s">>,
      <<"S", "o", "l", "v", "e">>, <<"c", "h", "a", "p", "t", "e", "r">>,
      <<"h", "o", "m", "e", "w", "o", "r", "k">>, <<"w", "h", "a", "t">>,
      <<"p", "r", "a", "c", "t", "i", "c", "e">>, <<"c", "a", "t">> }

\* " ".join(ws)
RECURSIVE JoinWords(_)
JoinWords(ws) ==
    IF ws = <<>> THEN <<>>
    ELSE IF Len(ws) = 1 THEN ws[1]
    ELSE ws[1] \o <<" ">> \o JoinWords(Tail(ws))

SampleDoc ==
    <<"S", "o", "l", "v", "e", " ", "t", "h", "i", "s", " ", "m", "a", "t", "h", " ">>
    \o <<"h", "o", "m", "e", "w", "o", "r", "k", ":", " ", "2", "+", "2", "=", "?">>

DocTexts == {JoinWords(ws) : ws \in SeqsUpTo(DocWords, MaxWords)} \cup {SampleDoc}

TypeIdle ==
    /\ docText = <<>>
    /\ docInfo = NoneVal
    /\ dpc = "idle"

TypeInit ==
    /\ docText \in DocTexts
    /\ docInfo = NoneVal
    /\ dpc = "input"

IdentifyType ==
    /\ dpc = "input"
    /\ docInfo' = identify_content_type(docText)
    /\ dpc' = "done"
    /\ UNCHANGED docText

(***************************************************************************)
(* The document tools run one after the other in one process: documents    *)
(* are processed and questions answered in any order.                      *)
(***************************************************************************)
\* AnswerFromDocumentTool._run: the answer and the stored document it read
answer_from_document(stored) ==
    IF stored = NoneVal THEN [text |-> "no_document_content", read |-> NoneVal]
    ELSE [text |-> "document_answer", read |-> stored]

\* os.environ.setdefault in place of the assignment: the first document stays
StoreSession_KeepsFirst(stored, doc) ==
    IF doc.store # NoneVal /\ stored = NoneVal THEN doc.store ELSE stored

\* the environment after a run of ProcessUploadedDocumentTool:
\* _store_session_content assigns the variable, nothing else touches it
StoreSession(stored, doc) ==
    IF doc.store # NoneVal THEN doc.store ELSE stored

MaxOps == 3

NoToolRun == [op |-> NoneVal, before |-> NoneVal, text |-> NoneVal, store |-> NoneVal,
              read |-> NoneVal, extracted |-> Raised("skipped"), steps |-> <<>>]

DocsIdle ==
    /\ environ = NoneVal
    /\ toolLog = <<>>
    /\ toolOut = NoToolRun

DocsInit == DocsIdle

ProcessDocument ==
    /\ Len(toolLog) < MaxOps
    /\ \E f \in Uploads \ {NoFile} :
         LET doc == process_uploaded_document(f)
         IN  /\ environ' = StoreSession(environ, doc)
             /\ toolLog' = Append(toolLog, [name |-> f.name, text |-> doc.text])
             /\ toolOut' = [op |-> "process", before |-> environ, text |-> doc.text,
                            store |-> doc.store, read |-> NoneVal,
                            extracted |-> doc.extracted, steps |-> doc.steps]

AnswerQuestion ==
    /\ Len(toolLog) < MaxOps
    /\ LET ans == answer_from_document(environ)
       IN  toolOut' = [op |-> "answer", before |-> environ, text |-> ans.text,
                       store |-> NoneVal, read |-> ans.read,
                       extracted |-> Raised("skipped"), steps |-> <<>>]
    /\ toolLog' = Append(toolLog, [name |-> NoneVal, text |-> NoneVal])
    /\ UNCHANGED environ

(***************************************************************************)
(* Sessions sharing one process: each runs the Camera Document branch of   *)
(* follow_up on its own upload, first the processing step, then (when the  *)
(* help response came back) the answering step, and the steps of different *)
(* sessions interleave.  toolLog is the order of the processing steps.     *)
(***************************************************************************)
Sessions == {"A", "B"}

\* a session's own document is no argument of the lookup
ContentRead_OwnDocument(stored, own) == own

\* os.environ.get('CURRENT_SESSION_CONTENT') in AnswerFromDocumentTool._run:
\* the variable of the process, whichever session set it
ContentRead(stored, own) == stored

SharedInit ==
    /\ DocsIdle
    /\ sess \in [Sessions -> [file : Uploads \ {NoFile}, pc : {"start"},
                              read : {NoneVal}, at : {0}]]

\* follow_up: process_camera_document(pdf_file, student_query)
SessionProcess(s) ==
    /\ sess[s].pc = "start"
    /\ LET doc == process_uploaded_document(sess[s].file)
       IN  /\ environ' = StoreSession(environ, doc)
           /\ toolLog' = Append(toolLog, [name |-> sess[s].file.name, text |-> doc.text])
           /\ sess' = [sess EXCEPT ![s].pc = IF doc.text = "document_help"
                                             THEN "processed" ELSE "refused"]
    /\ UNCHANGED toolOut

\* follow_up: answer_document_question(student_query)
SessionAnswer(s) ==
    /\ sess[s].pc = "processed"
    /\ LET ans == answer_from_document(ContentRead(environ, sess[s].file.name))
       IN  sess' = [sess EXCEPT ![s].pc = "answered", ![s].read = ans.read,
                                ![s].at = Len(toolLog)]
    /\ UNCHANGED <<environ, toolLog, toolOut>>

SessIdle == sess = <<>>

(***************************************************************************)
(* The response cleaner applied to raw responses of up to MaxLines lines   *)
(***************************************************************************)
MaxLines == 3

\* blank lines, lines with a reasoning phrase, plain lines around the three
\* length limits, and plain lines that mention the word "thought"
RawLines ==
    {Line("blank", 0), Line("thought", 30)}
    \cup {Line("plain", n) : n \in {9, 12, 19, 20, 21}}
    \cup {Line("mention", n) : n \in {27, 28, 40}}

RawTexts == SeqsUpTo(RawLines, MaxLines)

NoResponse == [kind |-> "not_called", lines |-> <<>>]

RespIdle ==
    /\ rawIn = <<>>
    /\ cleanedOut = NoResponse
    /\ rpc = "idle"

RespInit ==
    /\ rawIn \in RawTexts
    /\ cleanedOut = NoResponse
    /\ rpc = "input"

CleanResponse ==
    /\ rpc = "input"
    /\ cleanedOut' = clean_response_text(rawIn)
    /\ rpc' = "done"
    /\ UNCHANGED rawIn

(***************************************************************************)
(* The specific-question classifier applied to messages of up to MaxWords  *)
(* words (an empty word gives a leading, trailing or doubled space)        *)
(***************************************************************************)
QuestionWordsIn ==
    { <<>>, <<"a">>, <<"?">>, <<"h", "i">>, <<"c", "a", "t">>,
      <<"H", "i", "s", "t", "o", "r", "y", "?">>, <<"W", "h", "a", "t">>,
      <<"m", "e", "a", "n", "?">>, <<"h", "e", "l", "l", "o">>,
      <<"t", "h", "e", "r", "e">>, <<"n", "a", "m", "a", "s", "t", "e">>,
      <<"g", "o", "o", "d">>, <<"m", "o", "r", "n", "i", "n", "g">> }

\* "What does photosynthesis mean?"
SampleQuestion ==
    <<"W", "h", "a", "t", " ", "d", "o", "e", "s", " ", "p", "h", "o", "t", "o">>
    \o <<"s", "y", "n", "t", "h", "e", "s", "i", "s", " ", "m", "e", "a", "n", "?">>

QuestionMessages ==
    {JoinWords(ws) : ws \in SeqsUpTo(QuestionWordsIn, MaxWords)}
    \cup {NoMessage, SampleQuestion}

QuestionIdle ==
    /\ qMsg = NoMessage
    /\ qOut = NoneVal
    /\ qpc = "idle"

QuestionInit ==
    /\ qMsg \in QuestionMessages
    /\ qOut = NoneVal
    /\ qpc = "input"

ClassifyMessage ==
    /\ qpc = "input"
    /\ qOut' = is_specific_question(qMsg)
    /\ qpc' = "done"
    /\ UNCHANGED qMsg

(***************************************************************************)
(* Language detection (llm/indic_processor.py detect_language)             *)
(*                                                                         *)
(* A character is taken by its class: a letter outside U+0900..U+097F, a   *)
(* letter inside it, a character inside it that is no letter (a vowel      *)
(* sign, a digit, a danda) and any other character.                        *)
(***************************************************************************)
CharClasses == {"letter", "devanagari_letter", "devanagari_sign", "other"}

InDevanagari(c) == c \in {"devanagari_letter", "devanagari_sign"}

IsAlpha(c) == c \in {"letter", "devanagari_letter"}

\* detect_language answering 'hi' for a text without letters
detect_language_HindiWithoutLetters(t) ==
    LET hindi_chars == Cardinality({k \in 1..Len(t) : InDevanagari(t[k])})
        total_chars == Cardinality({k \in 1..Len(t) : IsAlpha(t[k])})
    IN  IF total_chars = 0 \/ 10 * hindi_chars > 3 * total_chars THEN "hi" ELSE "en"

\* hindi_chars / total_chars > 0.3, on integers
detect_language(t) ==
    LET hindi_chars == Cardinality({k \in 1..Len(t) : InDevanagari(t[k])})
        total_chars == Cardinality({k \in 1..Len(t) : IsAlpha(t[k])})
    IN  IF total_chars > 0 /\ 10 * hindi_chars > 3 * total_chars THEN "hi" ELSE "en"

MaxChars == 4

LangIdle ==
    /\ dlText = <<>>
    /\ dlOut = NoneVal
    /\ dlpc = "idle"

LangInit ==
    /\ dlText \in SeqsUpTo(CharClasses, MaxChars)
    /\ dlOut = NoneVal
    /\ dlpc = "input"

DetectLanguage ==
    /\ dlpc = "input"
    /\ dlOut' = detect_language(dlText)
    /\ dlpc' = "done"
    /\ UNCHANGED dlText

(***************************************************************************)
(* The LLM manager (llm/llm_manager.py)                                    *)
(*                                                                         *)
(* config['llms'] has the keys start, scale and active; the models that    *)
(* cannot be made available during a call are chosen by the environment.   *)
(***************************************************************************)
\* config['llms'] without the key 'active': the default configuration
TierModels ==
    [start |-> [primary |-> "llama3.1:8b", fallback |-> "qwen2.5:7b-instruct"],
     scale |-> [primary |-> "mixtral:8x7b-instruct",
                fallback |-> "llama3.1:70b-instruct",
                high_performance |-> "qwen2.5:32b-instruct"]]

Roles == {"primary", "fallback", "high_performance"}

\* the keys of config['llms']
ConfigKeys == DOMAIN TierModels \cup {"active"}

\* the names switch_tier is called with
TierNames == ConfigKeys \cup {"turbo"}

\* the sets of models that fail in a call: none, one or all of a tier's models
ModelFailures ==
    {{}} \cup {{TierModels[t][r]} : t \in {"start"}, r \in DOMAIN TierModels.start}
         \cup {{TierModels[t][r]} : t \in {"scale"}, r \in DOMAIN TierModels.scale}
         \cup {{TierModels[t][r] : r \in DOMAIN TierModels[t]} : t \in DOMAIN TierModels}

\* _initialize_models: config['llms'][active] is a string when active is
\* 'active', so models.items() raises; a role whose model fails keeps its entry
initialize_models(current, active, fails) ==
    IF active \notin DOMAIN TierModels
    THEN [exc |-> "AttributeError", models |-> current]
    ELSE [exc |-> "none",
          models |-> [role \in Roles |->
                        IF role \in DOMAIN TierModels[active]
                           /\ TierModels[active][role] \notin fails
                        THEN TierModels[active][role]
                        ELSE current[role]]]

\* get_llm
get_llm(current, role) ==
    IF current[role] # NoneVal THEN current[role] ELSE current["primary"]

\* switch_tier: the active tier, the models and what escaped after the call
switch_tier(active, current, new_tier, fails) ==
    IF new_tier \in ConfigKeys
    THEN LET init == initialize_models(current, new_tier, fails)
         IN  [active |-> new_tier, models |-> init.models, exc |-> init.exc]
    ELSE [active |-> active, models |-> current, exc |-> "none"]

MaxSwitches == 3

NoSwitch == [tier |-> NoneVal, exc |-> "none"]

LlmIdle ==
    /\ activeTier = NoneVal
    /\ currentModels = <<>>
    /\ switchOut = NoSwitch
    /\ switches = 0

\* after __init__: the configured tier is a tier, its models are initialized
LlmInit ==
    /\ activeTier \in DOMAIN TierModels
    /\ \E fails \in ModelFailures :
         currentModels = initialize_models([role \in Roles |-> NoneVal], activeTier,
                                           fails).models
    /\ switchOut = NoSwitch
    /\ switches = 0

SwitchTier ==
    /\ switches < MaxSwitches
    /\ \E new_tier \in TierNames, fails \in ModelFailures :
         LET r == switch_tier(activeTier, currentModels, new_tier, fails)
         IN  /\ activeTier' = r.active
             /\ currentModels' = r.models
             /\ switchOut' = [tier |-> new_tier, exc |-> r.exc]
    /\ switches' = switches + 1

CleanNext ==
    \/ CleanOnce /\ UNCHANGED <<pdfVars, ttsVars, chatVars, handlerVars, loadVars, imgVars, typeVars, docsVars, sessVars, respVars, questionVars, langVars, llmVars>>
    \/ CleanTwice /\ UNCHANGED <<pdfVars, ttsVars, chatVars, handlerVars, loadVars, imgVars, typeVars, docsVars, sessVars, respVars, questionVars, langVars, llmVars>>

InitClean ==
    /\ CleanInit /\ PdfIdle /\ TtsIdle /\ ChatIdle /\ HandlerIdle /\ LoadIdle
    /\ ImageIdle /\ TypeIdle
    /\ DocsIdle
    /\ SessIdle
    /\ RespIdle
    /\ QuestionIdle
    /\ LangIdle
    /\ LlmIdle

SpecClean == InitClean /\ [][CleanNext]_vars

PdfNext == ProcessPdf /\ UNCHANGED <<cleanVars, ttsVars, chatVars, handlerVars, loadVars, imgVars, typeVars, docsVars, sessVars, respVars, questionVars, langVars, llmVars>>

InitPdf ==
    /\ PdfInit /\ CleanIdle /\ TtsIdle /\ ChatIdle /\ HandlerIdle /\ LoadIdle
    /\ ImageIdle /\ TypeIdle
    /\ DocsIdle
    /\ SessIdle
    /\ RespIdle
    /\ QuestionIdle
    /\ LangIdle
    /\ LlmIdle

SpecPdf == InitPdf /\ [][PdfNext]_vars

TtsNext == GenerateTts /\ UNCHANGED <<cleanVars, pdfVars, chatVars, handlerVars, loadVars, imgVars, typeVars, docsVars, sessVars, respVars, questionVars, langVars, llmVars>>

InitTts ==
    /\ TtsInit /\ CleanIdle /\ PdfIdle /\ ChatIdle /\ HandlerIdle /\ LoadIdle
    /\ ImageIdle /\ TypeIdle
    /\ DocsIdle
    /\ SessIdle
    /\ RespIdle
    /\ QuestionIdle
    /\ LangIdle
    /\ LlmIdle

SpecTts == InitTts /\ [][TtsNext]_vars

ChatNext == ChatTurn /\ UNCHANGED <<cleanVars, pdfVars, ttsVars, handlerVars, loadVars, imgVars, typeVars, docsVars, sessVars, respVars, questionVars, langVars, llmVars>>

InitChat ==
    /\ ChatInit /\ CleanIdle /\ PdfIdle /\ TtsIdle /\ HandlerIdle /\ LoadIdle
    /\ ImageIdle /\ TypeIdle
    /\ DocsIdle
    /\ SessIdle
    /\ RespIdle
    /\ QuestionIdle
    /\ LangIdle
    /\ LlmIdle

SpecChat == InitChat /\ [][ChatNext]_vars

HandlerNext == CallHandler /\ UNCHANGED <<cleanVars, pdfVars, ttsVars, chatVars, loadVars, imgVars, typeVars, docsVars, sessVars, respVars, questionVars, langVars, llmVars>>

InitHandler ==
    /\ HandlerInit /\ CleanIdle /\ PdfIdle /\ TtsIdle /\ ChatIdle /\ LoadIdle
    /\ ImageIdle /\ TypeIdle
    /\ DocsIdle
    /\ SessIdle
    /\ RespIdle
    /\ QuestionIdle
    /\ LangIdle
    /\ LlmIdle

SpecHandlers == InitHandler /\ [][HandlerNext]_vars

LoadNext == CallLoader /\ UNCHANGED <<cleanVars, pdfVars, ttsVars, chatVars, handlerVars, imgVars, typeVars, docsVars, sessVars, respVars, questionVars, langVars, llmVars>>

InitLoad ==
    /\ LoadInit /\ CleanIdle /\ PdfIdle /\ TtsIdle /\ ChatIdle /\ HandlerIdle
    /\ ImageIdle /\ TypeIdle
    /\ DocsIdle
    /\ SessIdle
    /\ RespIdle
    /\ QuestionIdle
    /\ LangIdle
    /\ LlmIdle

SpecLoad == InitLoad /\ [][LoadNext]_vars

ImageNext ==
    ExtractImage /\ UNCHANGED <<cleanVars, pdfVars, ttsVars, chatVars, handlerVars, loadVars, typeVars, docsVars, sessVars, respVars, questionVars, langVars, llmVars>>

InitImage ==
    /\ ImageInit /\ CleanIdle /\ PdfIdle /\ TtsIdle /\ ChatIdle /\ HandlerIdle
    /\ LoadIdle /\ TypeIdle
    /\ DocsIdle
    /\ SessIdle
    /\ RespIdle
    /\ QuestionIdle
    /\ LangIdle
    /\ LlmIdle

SpecImage == InitImage /\ [][ImageNext]_vars

TypeNext ==
    IdentifyType
    /\ UNCHANGED <<cleanVars, pdfVars, ttsVars, chatVars, handlerVars, loadVars, imgVars, docsVars, sessVars, respVars, questionVars, langVars, llmVars>>

InitType ==
    /\ TypeInit /\ CleanIdle /\ PdfIdle /\ TtsIdle /\ ChatIdle /\ HandlerIdle
    /\ LoadIdle /\ ImageIdle
    /\ DocsIdle
    /\ SessIdle
    /\ RespIdle
    /\ QuestionIdle
    /\ LangIdle
    /\ LlmIdle

SpecType == InitType /\ [][TypeNext]_vars

DocsNext ==
    \/ ProcessDocument /\ UNCHANGED <<cleanVars, pdfVars, ttsVars, chatVars, handlerVars, loadVars, imgVars, typeVars, sessVars, respVars, questionVars, langVars, llmVars>>
    \/ AnswerQuestion /\ UNCHANGED <<cleanVars, pdfVars, ttsVars, chatVars, handlerVars, loadVars, imgVars, typeVars, sessVars, respVars, questionVars, langVars, llmVars>>

InitDocs ==
    /\ DocsInit /\ CleanIdle /\ PdfIdle /\ TtsIdle /\ ChatIdle /\ HandlerIdle
    /\ LoadIdle /\ ImageIdle /\ TypeIdle
    /\ SessIdle
    /\ RespIdle
    /\ QuestionIdle
    /\ LangIdle
    /\ LlmIdle

SpecDocs == InitDocs /\ [][DocsNext]_vars

SharedNext ==
    \/ \E s \in Sessions : SessionProcess(s) /\ UNCHANGED <<cleanVars, pdfVars, ttsVars, chatVars, handlerVars, loadVars, imgVars, typeVars, respVars, questionVars, langVars, llmVars>>
    \/ \E s \in Sessions : SessionAnswer(s) /\ UNCHANGED <<cleanVars, pdfVars, ttsVars, chatVars, handlerVars, loadVars, imgVars, typeVars, respVars, questionVars, langVars, llmVars>>

InitShared ==
    /\ SharedInit /\ CleanIdle /\ PdfIdle /\ TtsIdle /\ ChatIdle /\ HandlerIdle
    /\ LoadIdle /\ ImageIdle /\ TypeIdle
    /\ RespIdle
    /\ QuestionIdle
    /\ LangIdle
    /\ LlmIdle

SpecShared == InitShared /\ [][SharedNext]_vars

RespNext == CleanResponse /\ UNCHANGED <<cleanVars, pdfVars, ttsVars, chatVars, handlerVars, loadVars, imgVars, typeVars, docsVars, sessVars, questionVars, langVars, llmVars>>

InitResp ==
    /\ RespInit /\ CleanIdle /\ PdfIdle /\ TtsIdle /\ ChatIdle /\ HandlerIdle
    /\ LoadIdle /\ ImageIdle /\ TypeIdle
    /\ DocsIdle
    /\ SessIdle
    /\ QuestionIdle
    /\ LangIdle
    /\ LlmIdle

SpecRespond == InitResp /\ [][RespNext]_vars

QuestionNext == ClassifyMessage /\ UNCHANGED <<cleanVars, pdfVars, ttsVars, chatVars, handlerVars, loadVars, imgVars, typeVars, docsVars, sessVars, respVars, langVars, llmVars>>

InitQuestion ==
    /\ QuestionInit /\ CleanIdle /\ PdfIdle /\ TtsIdle /\ ChatIdle /\ HandlerIdle
    /\ LoadIdle /\ ImageIdle /\ TypeIdle
    /\ DocsIdle
    /\ SessIdle
    /\ RespIdle
    /\ LangIdle
    /\ LlmIdle

SpecQuestion == InitQuestion /\ [][QuestionNext]_vars

LangNext == DetectLanguage /\ UNCHANGED <<cleanVars, pdfVars, ttsVars, chatVars, handlerVars, loadVars, imgVars, typeVars, docsVars, sessVars, respVars, questionVars, llmVars>>

InitLang ==
    /\ LangInit /\ CleanIdle /\ PdfIdle /\ TtsIdle /\ ChatIdle /\ HandlerIdle
    /\ LoadIdle /\ ImageIdle /\ TypeIdle
    /\ DocsIdle
    /\ SessIdle
    /\ RespIdle
    /\ QuestionIdle
    /\ LlmIdle

SpecLang == InitLang /\ [][LangNext]_vars

LlmNext == SwitchTier /\ UNCHANGED <<cleanVars, pdfVars, ttsVars, chatVars, handlerVars, loadVars, imgVars, typeVars, docsVars, sessVars, respVars, questionVars, langVars>>

InitLlm ==
    /\ LlmInit /\ CleanIdle /\ PdfIdle /\ TtsIdle /\ ChatIdle /\ HandlerIdle
    /\ LoadIdle /\ ImageIdle /\ TypeIdle
    /\ DocsIdle
    /\ SessIdle
    /\ RespIdle
    /\ QuestionIdle
    /\ LangIdle

SpecLlm == InitLlm /\ [][LlmNext]_vars

(***************************************************************************)
(* C1: clean_text_for_audio is idempotent (parentheses not preserved):     *)
(* cleaning the cleaned text again gives the cleaned text, also for texts  *)
(* that hold a numbered-list marker.                                       *)
(***************************************************************************)
C1_Idempotent == (cpc = "twice" /\ ~preserve) => twice = once

\* the numbered-list text "1.a" gains a full stop at each cleaning
C1_NumberedTwice ==
    /\ cpc = "twice"
    /\ ~preserve
    /\ text = <<"1", ".", "a">>
    /\ once = <<"1", ".", "a", ".">>
    /\ twice = <<"1", ".", "a", ".", ".">>

(***************************************************************************)
(* C2: when process_pdf_with_ocr takes the OCR path on a PDF of several    *)
(* pages and the OCR of a page raises, nothing escapes and the text has a  *)
(* section for every page: the content of each page whose OCR succeeded    *)
(* (before and after the failing page) and an empty section for each page  *)
(* whose OCR raised.                                                       *)
(***************************************************************************)
C2_LaterPagesSurvive ==
    (/\ ppc = "done"
     /\ pdfFile.opens
     /\ ~UsesTextLayer(pdfFile)
     /\ Len(pdfFile.pages) >= 2
     /\ \E k \in 1..Len(pdfFile.pages) : pdfFile.pages[k].ocr = "raise")
    => /\ pdfOut.exc = "none"
       /\ Len(pdfOut.val) = Len(pdfFile.pages)
       /\ \A p \in 1..Len(pdfFile.pages) :
            /\ pdfOut.val[p].page = p
            /\ pdfOut.val[p].blank = (pdfFile.pages[p].ocr # "text")

\* three scanned pages, the OCR of the second raises: only the first is returned
C2_SecondPageRaises ==
    /\ ppc = "done"
    /\ pdfFile.opens
    /\ Len(pdfFile.pages) = 3
    /\ \A p \in 1..3 : pdfFile.pages[p].layer = 0
    /\ pdfFile.pages[1].ocr = "text"
    /\ pdfFile.pages[2].ocr = "raise"
    /\ pdfFile.pages[3].ocr = "text"
    /\ pdfOut.exc = "none"
    /\ Len(pdfOut.val) = 1
    /\ pdfOut.val[1].page = 1

(***************************************************************************)
(* C3: on a first turn (empty history) whose message is empty or absent,   *)
(* with a content source other than Camera Document, chat takes the        *)
(* greeting branch: start_session runs, the only task it kicks off is the  *)
(* teaching task, and neither the smart-response task nor the follow-up    *)
(* task is invoked.                                                        *)
(***************************************************************************)
C3_EmptyFirstTurnGreets ==
    (/\ hpc = "done"
     /\ hCall.fn = "chat"
     /\ hCall.history = <<>>
     /\ EmptyMessage(hCall.input.message)
     /\ hCall.input.src # CameraSource)
    => /\ hOut.branch = "start_session"
       /\ \A k \in 1..Len(hOut.out.calls) :
            hOut.out.calls[k] \in {"resolve", "teaching_task", "tts"}

\* a first turn without a message in Chapter mode that ran the teaching task
C3_Greeted ==
    /\ hpc = "done"
    /\ hCall.fn = "chat"
    /\ hCall.history = <<>>
    /\ hCall.input.message = <<>>
    /\ hCall.input.src = "Chapter"
    /\ hOut.branch = "start_session"
    /\ hOut.out.calls = <<"resolve", "teaching_task", "tts">>

(***************************************************************************)
(* C4: on a first turn (empty history) whose message is non-empty and a    *)
(* specific question, chat takes smart_first_response and not              *)
(* start_session: no teaching task runs, and for the Chapter and Upload    *)
(* PDF sources the only task kicked off is the smart-response task.        *)
(***************************************************************************)
C4_SpecificFirstTurnAnswers ==
    (/\ hpc = "done"
     /\ hCall.fn = "chat"
     /\ hCall.history = <<>>
     /\ ~EmptyMessage(hCall.input.message)
     /\ is_specific_question(hCall.input.message))
    => /\ hOut.branch = "smart_first_response"
       /\ \A k \in 1..Len(hOut.out.calls) : hOut.out.calls[k] # "teaching_task"
       /\ hCall.input.src # CameraSource =>
            \A k \in 1..Len(hOut.out.calls) :
                hOut.out.calls[k] \in {"resolve", "smart_response_task", "tts"}

\* a first turn asking "why?" in Upload PDF mode that ran the smart-response task
C4_Answered ==
    /\ hpc = "done"
    /\ hCall.fn = "chat"
    /\ hCall.history = <<>>
    /\ hCall.input.message = WhyQuestion
    /\ hCall.input.src = "Upload PDF"
    /\ hOut.branch = "smart_first_response"
    /\ hOut.out.calls = <<"resolve", "smart_response_task", "tts">>

(***************************************************************************)
(* C5 as stated: a first turn in Chapter or Upload PDF mode whose message  *)
(* is non-empty but not a specific question is handled by follow_up, not   *)
(* by the greeting branch.                                                 *)
(***************************************************************************)
C5_FirstGreetingWordFollowsUp ==
    (/\ lastTurn.branch # NoneVal
     /\ lastTurn.first
     /\ lastTurn.src # CameraSource
     /\ ~EmptyMessage(lastTurn.message)
     /\ ~is_specific_question(lastTurn.message))
    => lastTurn.branch = "follow_up"

(***************************************************************************)
(* C5 amended: in Chapter or Upload PDF mode a turn with a non-empty       *)
(* message goes to follow_up, with the follow-up task the only task, when  *)
(* the history is not empty; on the first turn such a message that is not  *)
(* a specific question goes to the greeting branch (start_session with the *)
(* teaching task), not to follow_up.                                       *)
(***************************************************************************)
C5_LaterTurnFollowsUp ==
    (/\ lastTurn.branch # NoneVal
     /\ lastTurn.src # CameraSource
     /\ ~EmptyMessage(lastTurn.message))
    => /\ ~lastTurn.first =>
            /\ lastTurn.branch = "follow_up"
            /\ \A k \in 1..Len(lastTurn.calls) :
                 lastTurn.calls[k] \in {"resolve", "follow_up_task", "tts"}
       /\ (lastTurn.first /\ ~is_specific_question(lastTurn.message)) =>
            /\ lastTurn.branch = "start_session"
            /\ \A k \in 1..Len(lastTurn.calls) :
                 lastTurn.calls[k] \in {"resolve", "teaching_task", "tts"}

\* "hi" twice in Chapter mode: greeted by default the first time, handled by
\* the follow-up task the second time
C5_HiThenHi ==
    /\ Len(history) = 2
    /\ history[1] = <<Hi, "default_greeting">>
    /\ lastTurn.message = Hi
    /\ lastTurn.src = "Chapter"
    /\ lastTurn.branch = "follow_up"
    /\ lastTurn.calls = <<"resolve", "follow_up_task", "tts">>

(***************************************************************************)
(* C6: over the turns of a session the greeting branch (start_session) is  *)
(* taken only while the history is empty: no turn after the first is       *)
(* dispatched to the greeting, whatever its message.                       *)
(***************************************************************************)
C6_GreetingOnlyWhenFresh ==
    lastTurn.branch = "start_session" => lastTurn.first

\* a second turn without a message in Chapter mode that is greeted again
C6_GreetedAgain ==
    /\ Len(history) = 2
    /\ ~lastTurn.first
    /\ lastTurn.src = "Chapter"
    /\ lastTurn.message = <<>>
    /\ lastTurn.branch = "start_session"
    /\ lastTurn.calls = <<"resolve", "teaching_task", "tts">>

(***************************************************************************)
(* C7: start_session, smart_first_response, follow_up and chat raise       *)
(* nothing, whatever fails while the content is loaded, the document is    *)
(* read, the agent runs or the speech is synthesized: each returns a       *)
(* message (with an audio path or none).                                   *)
(***************************************************************************)
C7_NothingEscapes ==
    hpc = "done" => /\ hOut.out.exc = "none"
                    /\ hOut.out.text # NoneVal

\* follow_up called in Chapter mode with a crew whose kickoff raises
C7_AgentFailureCaught ==
    /\ hpc = "done"
    /\ hCall.fn = "follow_up"
    /\ hCall.input.src = "Chapter"
    /\ hCall.input.env.crew = "kickoff_raises"
    /\ hOut.out.errs = {"ProcessingError/agent"}
    /\ hOut.out.exc = "none"
    /\ hOut.out.text = "oops_answering"

(***************************************************************************)
(* C8: whenever a turn hits an error kind (ContentNotFound,                *)
(* UnreadableContent, a ProcessingError from OCR, TTS or the agent) its    *)
(* result is an apologetic message with no audio; also for a document      *)
(* failure on a Camera Document turn and for a TTS failure.                *)
(***************************************************************************)
C8_ErrorsApologiseSilently ==
    (hpc = "done" /\ hOut.out.errs # {})
    => /\ hOut.out.text \in Apologies
       /\ hOut.out.audio = NoneVal

\* start_session on a Camera Document whose OCR raises returns an audio path
C8_CameraFailureSpoken ==
    /\ hpc = "done"
    /\ hCall.fn = "start_session"
    /\ hCall.input.src = CameraSource
    /\ hCall.input.pdf = TornJpg
    /\ hOut.out.errs = {"ProcessingError/ocr"}
    /\ hOut.out.text = "document_error_retry"
    /\ hOut.out.audio = "gtts_mp3"

(***************************************************************************)
(* C9: generate_tts never raises: for every language code and every set of *)
(* failing synthesizers it returns a path, and when all synthesizers fail  *)
(* the path is that of the file nothing was written to.                    *)
(***************************************************************************)
C9_TtsNeverRaises ==
    tpc = "done" => /\ ttsOut.exc = "none"
                    /\ ttsOut.path # NoneVal
                    /\ Synths \subseteq ttsFails => ttsOut.path = "empty_wav"
                    /\ ttsOut.path = "empty_wav" => "system" \in ttsFails

\* a Hindi code with the three synthesizers failing
C9_AllFailed ==
    /\ tpc = "done"
    /\ ttsLang = "hi"
    /\ ttsFails = Synths
    /\ ttsOut.exc = "none"
    /\ ttsOut.path = "empty_wav"

(***************************************************************************)
(* C10: generate_tts invokes the synthesizers in a fixed order: for a      *)
(* Hindi code the local engine, then gTTS with 'hi', then the system       *)
(* synthesizer; for any other code gTTS with that code, then the system    *)
(* synthesizer.  Each one after the first is invoked only after every      *)
(* earlier one failed.                                                     *)
(***************************************************************************)
C10_FixedOrder ==
    tpc = "done" =>
        LET order == IF ttsLang \in {"hi", "hi-in", "hindi"}
                     THEN << [engine |-> "local", lang |-> ttsLang],
                             [engine |-> "gtts", lang |-> "hi"],
                             [engine |-> "system", lang |-> ttsLang] >>
                     ELSE << [engine |-> "gtts", lang |-> ttsLang],
                             [engine |-> "system", lang |-> ttsLang] >>
            calls == ttsOut.calls
        IN  /\ Len(calls) \in 1..Len(order)
            /\ \A k \in 1..Len(calls) : calls[k] = order[k]
            /\ \A k \in 1..(Len(calls) - 1) : calls[k].engine \in ttsFails

\* "hi-in" with the local engine and gTTS failing: all three are invoked
C10_ThreeTried ==
    /\ tpc = "done"
    /\ ttsLang = "hi-in"
    /\ ttsFails = {"local", "gtts"}
    /\ Len(ttsOut.calls) = 3
    /\ ttsOut.path = "system_wav"

C12_FiftyIsEnough ==
    (ppc = "done" /\ pdfFile.opens /\ pdfFile.layerOk)
    => LET regular_text == LayerSegments(pdfFile.pages, 1)
       IN  /\ TextLen(regular_text) >= 50 => pdfOut = Returned(regular_text)
           /\ pdfOut # Returned(regular_text) => TextLen(regular_text) \in 0..49

\* one page with a text layer of exactly 50 characters: the OCR text is returned
C12_FiftyGoesToOcr ==
    /\ ppc = "done"
    /\ pdfFile.opens /\ pdfFile.layerOk
    /\ pdfFile.pages = <<[layer |-> 50, ocr |-> "text"]>>
    /\ pdfOut = Returned(<<[page |-> 1, src |-> "ocr", len |-> 0, blank |-> FALSE]>>)

(***************************************************************************)
(* C13: process_pdf_with_ocr raises ValueError whenever the text-layer     *)
(* extraction and the OCR extraction both raise, also when the OCR path    *)
(* raises on the first page; it does not return an empty text then.        *)
(***************************************************************************)
C13_BothRaiseIsError ==
    (/\ ppc = "done"
     /\ ~pdfFile.opens \/ ~pdfFile.layerOk
     /\ ~pdfFile.opens \/ (pdfFile.pages # <<>> /\ pdfFile.pages[1].ocr = "raise"))
    => pdfOut.exc = "ValueError"

\* the text layer cannot be read and the OCR of page 1 raises: "" is returned
C13_FirstPageRaises ==
    /\ ppc = "done"
    /\ pdfFile.opens /\ ~pdfFile.layerOk
    /\ Len(pdfFile.pages) = 2
    /\ pdfFile.pages[1].ocr = "raise"
    /\ pdfOut = Returned(<<>>)

(***************************************************************************)
(* C14: extract_text_from_image leaves no enhanced file behind: after a    *)
(* call that wrote the enhanced image beside a readable upload, the        *)
(* enhanced file no longer exists, whether the call returned the OCR text  *)
(* or raised ValueError because OCR raised.                                *)
(***************************************************************************)
C14_NoEnhancedLeft ==
    (/\ imgCalls > 0
     /\ EnhancedPath(imgPath) # imgPath
     /\ files[imgPath] = "upload")
    => files[EnhancedPath(imgPath)] = "absent"

\* OCR raised on a.png: a_enhanced.png is still there
C14_LeftBehind ==
    /\ imgCalls = 1
    /\ imgPath = <<"a", ".", "p", "n", "g">>
    /\ files[imgPath] = "upload"
    /\ imgOut.exc = "ValueError"
    /\ files[<<"a", "_", "e", "n", "h", "a", "n", "c", "e", "d", ".", "p", "n", "g">>]
         = "enhanced"

(***************************************************************************)
(* C15: for every image suffix the document tool accepts the enhanced      *)
(* image is written to a path other than the upload's, so after any number *)
(* of calls the upload is still in place and unmodified.                   *)
(***************************************************************************)
C15_UploadKept ==
    imgCalls > 0 => /\ EnhancedPath(imgPath) # imgPath
                    /\ files[imgPath] \in {"upload", "corrupt"}

\* a.jpeg is enhanced in place and removed by the first call; the second fails
C15_UploadRemoved ==
    /\ imgCalls = 2
    /\ imgPath = <<"a", ".", "j", "p", "e", "g">>
    /\ EnhancedPath(imgPath) = imgPath
    /\ files[imgPath] = "absent"
    /\ imgOut.exc = "ValueError"

(***************************************************************************)
(* C16: identify_content_type gives the subject that comes first in the    *)
(* order math, english, science, history, geography among those with a     *)
(* keyword occurring in the lower-cased text, and unknown when no keyword  *)
(* occurs.                                                                 *)
(***************************************************************************)
C16_FirstSubjectWins ==
    dpc = "done" =>
        LET order == <<"math", "english", "science", "history", "geography">>
            keywords(n) ==
                subjects[CHOOSE k \in 1..Len(subjects) : subjects[k].subject = n].keywords
            hits == {i \in 1..Len(order) : AnyIn(Lower(docText), keywords(order[i]))}
        IN  IF hits = {} THEN docInfo.subject = "unknown"
            ELSE /\ docInfo.subject = order[CHOOSE i \in hits : \A j \in hits : i <= j]
                 /\ \A i \in hits : \A j \in 1..Len(order) :
                        docInfo.subject = order[j] => j <= i

\* "history Math" holds keywords of math, english ("story") and history: math
C16_MathBeforeHistory ==
    /\ dpc = "done"
    /\ docText = <<"h", "i", "s", "t", "o", "r", "y", " ", "M", "a", "t", "h">>
    /\ docInfo.subject = "math"

(***************************************************************************)
(* C17: identify_content_type gives type homework when one of homework,    *)
(* assignment, complete, solve occurs, also when textbook words occur;     *)
(* else textbook when one of chapter, lesson, learn, understand occurs;    *)
(* else general.  "Solve this math homework: 2+2=?" gives homework, math,  *)
(* has_questions and has_exercises.                                        *)
(***************************************************************************)
C17_TypeByWords ==
    dpc = "done" =>
        LET low == Lower(docText)
            homework == \E w \in {
                <<"h", "o", "m", "e", "w", "o", "r", "k">>,
                <<"a", "s", "s", "i", "g", "n", "m", "e", "n", "t">>,
                <<"c", "o", "m", "p", "l", "e", "t", "e">>, <<"s", "o", "l", "v", "e">> } : Contains(low, w)
            textbook == \E w \in {
                <<"c", "h", "a", "p", "t", "e", "r">>,
                <<"l", "e", "s", "s", "o", "n">>, <<"l", "e", "a", "r", "n">>,
                <<"u", "n", "d", "e", "r", "s", "t", "a", "n", "d">> } : Contains(low, w)
        IN  /\ docInfo.type = IF homework THEN "homework"
                              ELSE IF textbook THEN "textbook" ELSE "general"
            /\ docText = SampleDoc =>
                 /\ docInfo.type = "homework"
                 /\ docInfo.subject = "math"
                 /\ docInfo.has_questions
                 /\ docInfo.has_exercises

\* "chapter Solve" holds a textbook word and a homework word: homework
C17_HomeworkBeforeTextbook ==
    /\ dpc = "done"
    /\ docText = <<"c", "h", "a", "p", "t", "e", "r", " ", "S", "o", "l", "v", "e">>
    /\ docInfo.type = "homework"
    /\ docInfo.has_exercises

C19_LatestGoodDocument ==
    LET good == {i \in 1..Len(toolLog) : toolLog[i].text = "document_help"}
        latest == IF good = {} THEN NoneVal
                  ELSE toolLog[CHOOSE i \in good : \A j \in good : j <= i].name
    IN  /\ environ = latest
        /\ toolOut.op = "answer" =>
             /\ toolOut.read = latest
             /\ toolOut.text = IF good = {} THEN "no_document_content"
                               ELSE "document_answer"

\* book.pdf, then photo.png, then a question: answered from photo.png
C19_SecondOverwrites ==
    /\ Len(toolLog) = 3
    /\ toolLog[1] = [name |-> "book.pdf", text |-> "document_help"]
    /\ toolLog[2] = [name |-> "photo.png", text |-> "document_help"]
    /\ toolOut.op = "answer"
    /\ toolOut.read = "photo.png"

(***************************************************************************)
(* C20: session content is one variable of the process, not one per        *)
(* session.  When the camera-document turns of two sessions interleave,    *)
(* the answering step of a session reads the document of the processing    *)
(* step that succeeded last in the process before it, whichever session    *)
(* ran that step; so a session that processed its own upload is answered   *)
(* from the other session's upload when that one was stored in between.    *)
(***************************************************************************)
C20_AnswerFromLastStoredByAnyone ==
    \A s \in Sessions :
        sess[s].pc = "answered" =>
            LET good == {i \in 1..sess[s].at : toolLog[i].text = "document_help"}
            IN  /\ \E i \in good : toolLog[i].name = sess[s].file.name
                /\ sess[s].read = toolLog[CHOOSE i \in good : \A j \in good : j <= i].name

\* A processed book.pdf, B processed photo.png, then A was answered from photo.png
C20_AnsweredFromOther ==
    /\ sess["A"].file.name = "book.pdf"
    /\ sess["B"].file.name = "photo.png"
    /\ Len(toolLog) = 2
    /\ toolLog[1] = [name |-> "book.pdf", text |-> "document_help"]
    /\ toolLog[2] = [name |-> "photo.png", text |-> "document_help"]
    /\ sess["A"].pc = "answered"
    /\ sess["A"].read = "photo.png"

(***************************************************************************)
(* C21: every turn chat completes appends exactly one pair (the message    *)
(* as displayed, the response) to the end of the history and leaves the    *)
(* earlier pairs as they were and in order, also when the response is an   *)
(* error message; so after a failed first turn the history is not empty    *)
(* and the next turn is dispatched as a later turn: never to               *)
(* smart_first_response, and to follow_up whenever it carries a message.   *)
(***************************************************************************)
C21_TurnAppendsOnePair ==
    [][/\ Len(history') = Len(history) + 1
       /\ SubSeq(history', 1, Len(history)) = history
       /\ history'[Len(history')] =
              << IF lastTurn'.message = NoMessage \/ lastTurn'.message = <<>>
                 THEN StartingSession ELSE lastTurn'.message,
                 lastTurn'.text >>
       /\ Len(history) > 0 =>
              /\ lastTurn'.branch # "smart_first_response"
              /\ ~EmptyMessage(lastTurn'.message) => lastTurn'.branch = "follow_up"]_vars

\* the first turn failed in the agent; the question of the second turn went to follow_up
C21_FailedFirstThenFollowUp ==
    /\ Len(history) = 2
    /\ history[1] = <<WhyQuestion, "oops_answering">>
    /\ lastTurn.message = WhyQuestion
    /\ lastTurn.branch = "follow_up"
    /\ ~lastTurn.first

(***************************************************************************)
(* C22: for every non-empty raw response clean_response_text returns the   *)
(* fixed clarification prompt or a text of at least 20 characters: a       *)
(* remainder shorter than that, with no paragraph to put in its place, is  *)
(* never returned.                                                         *)
(***************************************************************************)
C22_LongOrPrompt ==
    (rpc = "done" /\ rawIn # <<>> /\ rawIn # <<Line("blank", 0)>>) =>
        \/ cleanedOut = FixedPrompt
        \/ JoinedLen(cleanedOut.lines) >= MinCleanedLen

\* a single plain line of 12 characters comes back as it is
C22_ShortRemainderReturned ==
    /\ rpc = "done"
    /\ rawIn = <<Line("plain", 12)>>
    /\ cleanedOut = [kind |-> "agent_text", lines |-> <<Line("plain", 12)>>]

(***************************************************************************)
(* C23: reasoning text is removed by whole lines, never by substring:      *)
(* when the result of the line stripping is what is returned, every line   *)
(* of the output is a line of the input, so a kept line that mentions the  *)
(* word "thought" comes back unaltered.                                    *)
(***************************************************************************)
C23_WholeLinesOnly ==
    (rpc = "done" /\ JoinedLen(StripLines(rawIn)) >= MinCleanedLen) =>
        /\ cleanedOut.kind = "agent_text"
        /\ \A k \in 1..Len(cleanedOut.lines) :
               \E j \in 1..Len(rawIn) : cleanedOut.lines[k] = rawIn[j]

\* a reasoning line is dropped and the line mentioning the word comes back shorter
C23_WordCutOut ==
    /\ rpc = "done"
    /\ rawIn = <<Line("thought", 30), Line("mention", 40)>>
    /\ cleanedOut = [kind |-> "agent_text", lines |-> <<Line("cut", 32)>>]

(***************************************************************************)
(* C24: is_specific_question returns false for every message with fewer    *)
(* than 3 characters that are not white space, also when the message holds *)
(* a question mark and is 3 or more characters long once trimmed ("a ?").  *)
(***************************************************************************)
C24_FewCharactersIsFalse ==
    (/\ qpc = "done"
     /\ qMsg # NoMessage
     /\ Cardinality({i \in 1..Len(qMsg) : ~IsSpace(qMsg[i])}) < MinQuestionLen)
        => qOut = FALSE

\* "a ?" is taken for a specific question
C24_TwoCharactersAccepted ==
    /\ qpc = "done"
    /\ qMsg = <<"a", " ", "?">>
    /\ qOut = TRUE

(***************************************************************************)
(* C25: for a message of at least 3 characters that holds "?" or one of    *)
(* the question words, is_specific_question returns true unless the        *)
(* message is a short greeting: it has at most 3 words and begins with a   *)
(* greeting word as a word of its own, not as the first letters of a       *)
(* longer word ("History?").  "hi" gives false and "What does              *)
(* photosynthesis mean?" gives true.                                       *)
(***************************************************************************)
C25_TrueUnlessShortGreeting ==
    qpc = "done" =>
        /\ qMsg = <<"h", "i">> => qOut = FALSE
        /\ qMsg = SampleQuestion => qOut = TRUE
        /\ (/\ qMsg # NoMessage
            /\ Cardinality({i \in 1..Len(qMsg) : ~IsSpace(qMsg[i])}) >= MinQuestionLen
            /\ \/ Contains(qMsg, <<"?">>)
               \/ \E w \in question_words : Contains(Strip(Lower(qMsg)), w))
           => LET m == Strip(Lower(qMsg))
                  greets == \E g \in generic_greetings :
                               /\ StartsWith(m, g)
                               /\ \/ Len(m) = Len(g)
                                  \/ \A u \in 1..Len(LowerCase) : LowerCase[u] # m[Len(g) + 1]
              IN  qOut = ~(greets /\ WordCount(m) <= MaxGreetingWords)

\* "History?" is taken for a greeting
C25_HistoryIsGreeting ==
    /\ qpc = "done"
    /\ qMsg = <<"H", "i", "s", "t", "o", "r", "y", "?">>
    /\ qOut = FALSE

(***************************************************************************)
(* C26: detect_language returns 'en' for every text that holds no          *)
(* character of the Devanagari range U+0900..U+097F, the empty text and    *)
(* the texts without letters included.                                     *)
(***************************************************************************)
C26_NoDevanagariIsEnglish ==
    (dlpc = "done" /\ \A k \in 1..Len(dlText) : ~InDevanagari(dlText[k]))
        => dlOut = "en"

\* a text of two characters that are not letters
C26_NoLettersIsEnglish ==
    /\ dlpc = "done"
    /\ dlText = <<"other", "other">>
    /\ dlOut = "en"

C28_ResolveBeforeAgent ==
    (hpc = "done" /\ hCall.input.src # CameraSource)
    => LET content == resolve_chapter_content(hCall.input.src, hCall.input.pdf,
                                              hCall.input.env.chapter)
           calls == hOut.out.calls
       IN  /\ Len(calls) >= 1
           /\ calls[1] = "resolve"
           /\ \A k \in 2..Len(calls) : calls[k] # "resolve"
           /\ content.exc # "none" =>
                  /\ calls = <<"resolve">>
                  /\ hOut.out.audio = NoneVal
                  /\ hOut.out.text \in Apologies
           /\ (content.exc = "none" /\ hCall.input.env.crew # "init_raises") =>
                  /\ Len(calls) >= 2
                  /\ calls[2] \in {"teaching_task", "smart_response_task", "follow_up_task"}

\* a later turn of chat whose chapter file is gone: resolved again, nothing else done
C28_LaterTurnFileGone ==
    /\ hpc = "done"
    /\ hCall.fn = "chat"
    /\ hCall.history # <<>>
    /\ hCall.input.src = "Chapter"
    /\ hCall.input.message = WhyQuestion
    /\ hCall.input.env.chapter = GonePdf
    /\ hCall.input.env.crew = "ok"
    /\ hOut.out.calls = <<"resolve">>
    /\ hOut.out.text = "content_not_found"
    /\ hOut.out.audio = NoneVal

(***************************************************************************)
(* C29: switch_tier called with a name that is no model tier, the          *)
(* configuration key "active" included, does not raise and leaves the      *)
(* active tier and the role-to-model map as they were.                     *)
(***************************************************************************)
C29_UnknownTierChangesNothing ==
    [][switchOut'.tier \notin DOMAIN TierModels =>
           /\ switchOut'.exc = "none"
           /\ activeTier' = activeTier
           /\ currentModels' = currentModels]_vars

\* switch_tier("active") raised and the active tier is now "active"
C29_ActiveRaises ==
    /\ switchOut = [tier |-> "active", exc |-> "AttributeError"]
    /\ activeTier = "active"

(***************************************************************************)
(* C30: after any sequence of switch_tier calls every role in the          *)
(* role-to-model map is a role of the active tier and has that tier's      *)
(* model, so get_llm returns no model of an earlier tier: neither for a    *)
(* role only the earlier tier has nor for a role whose new model failed    *)
(* to initialize.                                                          *)
(***************************************************************************)
C30_OnlyActiveTierModels ==
    \A role \in Roles :
        /\ currentModels[role] # NoneVal =>
               /\ activeTier \in DOMAIN TierModels
               /\ role \in DOMAIN TierModels[activeTier]
               /\ currentModels[role] = TierModels[activeTier][role]
        /\ get_llm(currentModels, role) # NoneVal =>
               /\ activeTier \in DOMAIN TierModels
               /\ \E r \in DOMAIN TierModels[activeTier] :
                      get_llm(currentModels, role) = TierModels[activeTier][r]

\* after scale and then start, get_llm("high_performance") gives the scale tier's model
C30_StaleRoleServed ==
    /\ switches = 2
    /\ switchOut = [tier |-> "start", exc |-> "none"]
    /\ activeTier = "start"
    /\ currentModels["primary"] = TierModels.start.primary
    /\ get_llm(currentModels, "high_performance") = TierModels.scale.high_performance

====
